---- MODULE Spec2Model ----
(***************************************************************************)
(* MPAM memory-system-component (MSC) devices: discovery, capability       *)
(* probing, CPU hotplug integration, error interrupts and the per-component*)
(* configuration broadcast of drivers/platform/mpam/mpam_devices.c.        *)
(***************************************************************************)
EXTENDS Integers, Sequences, FiniteSets, TLC

\* ------------------------------------------------------------------ bounds
\* number of possible CPUs of the modelled machine
NumCpus == 2
\* number of devices the firmware tables describe at most
MaxDevices == 2
\* devices of the class that is reconciled
NumSquashDevices == 3

CPUS == 0 .. (NumCpus - 1)
nr_cpu_ids == NumCpus
cpu_possible_mask == CPUS

\* ----------------------------------------------------------------- helpers
\* Register values are sets of bit positions: {} is 0, {0, 2} is 5.
\* GENMASK(h, l): bits l..h inclusive
GENMASK(h, l) == l .. h
u16(x) == x \cap (0 .. 15)
u32(x) == x \cap (0 .. 31)
\* x << n
Shl(x, n) == {b + n : b \in x}
\* ~0 of a u32
AllOnes32 == 0 .. 31

MinOf(S) == CHOOSE x \in S : \A y \in S : x <= y
MaxInt(a, b) == IF a >= b THEN a ELSE b
MinInt(a, b) == IF a <= b THEN a ELSE b

\* cpumask_any() is cpumask_first(): nr_cpu_ids for an empty mask
cpumask_any(mask) == IF mask = {} THEN nr_cpu_ids ELSE MinOf(mask)
cpumask_intersects(a, b) == a \cap b # {}

\* error codes (0 is success)
OK == "0"
EOPNOTSUPP == "-EOPNOTSUPP"
EINVAL == "-EINVAL"
EIO == "-EIO"
ENXIO == "-ENXIO"
ENOMEM == "-ENOMEM"

MPAM_CLASS_CACHE == "MPAM_CLASS_CACHE"
MPAM_CLASS_MEMORY == "MPAM_CLASS_MEMORY"
MPAM_ARCHITECTURE_V1 == "MPAM_ARCHITECTURE_V1"
MPAM_IRQ_MODE_LEVEL == "MPAM_IRQ_MODE_LEVEL"
MPAM_IRQ_MODE_EDGE == "MPAM_IRQ_MODE_EDGE"

\* feature bits of mpam_features_t
PartFeatures ==
    {"mpam_feat_ccap_part", "mpam_feat_cpor_part", "mpam_feat_mbw_part",
     "mpam_feat_mbw_min", "mpam_feat_mbw_max", "mpam_feat_mbw_prop",
     "mpam_feat_intpri_part", "mpam_feat_dspri_part"}
AllFeatures ==
    PartFeatures \cup {"mpam_feat_intpri_part_0_low", "mpam_feat_dspri_part_0_low",
                       "mpam_feat_msmon_csu", "mpam_feat_msmon_mbwu"}

mpam_has_feature(feat, features) == feat \in features
mpam_set_feature(feat, features) == features \cup {feat}
mpam_clear_feature(feat, features) == features \ {feat}
\* any feature that is configured through MPAMCFG_PART_SEL
mpam_has_part_sel(features) == features \cap PartFeatures # {}

\* ------------------------------------------------- hardware (ID registers)
\* The ID registers of one MSC, decoded into their fields.
HwNone ==
    [aidr |-> MPAM_ARCHITECTURE_V1, partid_max |-> 2, pmg_max |-> 1,
     has_ccap_part |-> FALSE, cmax_wd |-> 0,
     has_cpor_part |-> FALSE, cpbm_wd |-> 0,
     has_mbw_part |-> FALSE, bwpbm_wd |-> 0, has_pbm |-> FALSE, bwa_wd |-> 0,
     has_max |-> FALSE, has_min |-> FALSE, has_prop |-> FALSE,
     has_pri_part |-> FALSE, intpri_wd |-> 0, has_intpri |-> FALSE,
     intpri_0_is_low |-> FALSE, dspri_wd |-> 0, has_dspri |-> FALSE,
     dspri_0_is_low |-> FALSE,
     has_msmon |-> FALSE, msmon_csu |-> FALSE, csu_num_mon |-> 0,
     msmon_mbwu |-> FALSE, mbwu_num_mon |-> 0]

\* a memory-controller style MSC: bandwidth partitioning, priority, monitors
HwBandwidth ==
    [HwNone EXCEPT !.has_mbw_part = TRUE, !.bwpbm_wd = 3, !.has_pbm = TRUE,
                   !.bwa_wd = 2, !.has_max = TRUE, !.has_min = TRUE,
                   !.has_cpor_part = TRUE, !.cpbm_wd = 4,
                   !.has_pri_part = TRUE, !.intpri_wd = 2, !.has_intpri = TRUE,
                   !.intpri_0_is_low = TRUE,
                   !.has_msmon = TRUE, !.msmon_mbwu = TRUE, !.mbwu_num_mon = 2]

\* a cache style MSC: capacity and portion partitioning, a 33 bit portion bitmap
HwCache ==
    [HwNone EXCEPT !.partid_max = 1, !.pmg_max = 0,
                   !.has_ccap_part = TRUE, !.cmax_wd = 3,
                   !.has_cpor_part = TRUE, !.cpbm_wd = 33,
                   !.has_msmon = TRUE, !.msmon_csu = TRUE, !.csu_num_mon = 1]

\* a cache MSC whose portion bitmap fills one register word exactly
HwPortion32 == [HwCache EXCEPT !.cpbm_wd = 32]

\* an MSC of another architecture version: its probe fails, whatever its other
\* ID registers hold
HwForeign ==
    [HwBandwidth EXCEPT !.aidr = "MPAM_ARCHITECTURE_OTHER",
                        !.partid_max = 1, !.pmg_max = 0]

HwProfiles == {HwBandwidth, HwCache, HwForeign}

\* MSCs of one class that differ in widths, counts and priority polarity
HwPortion13 ==
    [HwNone EXCEPT !.has_ccap_part = TRUE, !.cmax_wd = 8,
                   !.has_cpor_part = TRUE, !.cpbm_wd = 13,
                   !.has_pri_part = TRUE, !.intpri_wd = 2, !.has_intpri = TRUE,
                   !.intpri_0_is_low = TRUE, !.dspri_wd = 2, !.has_dspri = TRUE,
                   !.has_msmon = TRUE, !.msmon_csu = TRUE, !.csu_num_mon = 2]
HwPortion17 ==
    [HwPortion13 EXCEPT !.cpbm_wd = 17, !.intpri_wd = 3, !.csu_num_mon = 1]
HwPolarity ==
    [HwPortion13 EXCEPT !.intpri_0_is_low = FALSE, !.dspri_0_is_low = TRUE]
\* a bandwidth bitmap width is reported but the bitmap itself is not implemented
HwBandwidthNoPbm ==
    [HwBandwidth EXCEPT !.has_pbm = FALSE, !.bwa_wd = 4, !.mbwu_num_mon = 1]

SquashProfiles ==
    {HwNone, HwBandwidth, HwBandwidthNoPbm, HwPortion13, HwPortion17, HwPolarity}

\* what the CPUs implement (mpam_cpu_max_partids(), mpam_cpu_max_pmgs())
mpam_cpu_max_partids == 2
mpam_cpu_max_pmgs == 1

\* cache topology of the machine: the cache id and size a CPU sees at a level
get_cpu_cacheinfo_id(cpu, level) == cpu % 2
get_cpu_cache_leaf_size(cpu, level) == 1 + (cpu % 2)

\* ------------------------------------------------------------------- state
VARIABLES
    phase,          \* "discovery" until mpam_discovery_complete(), then "running"
    devs,           \* the devices, in creation order (struct mpam_device)
    classes,        \* mpam_classes_rcu: classes, each with its components
    sysprops,       \* mpam_sysprops
    online,         \* cpu_online_mask
    work_pending,   \* mpam_enable_work is queued
    work_running,   \* mpam_enable_work was dequeued and is about to run
    resctrl_inits,  \* number of mpam_resctrl_init() calls
    resctrl_cfg,    \* the configuration the policy layer holds, or NoCfg
    call,           \* the last mpam_component_apply_all() call, or NoCall
    irq_log,        \* what the last error interrupt did
    oops,           \* the kernel faulted on a wild pointer
    rt,             \* a reset, apply, reset sequence on one device: its progress
    hp,             \* what the last CPU hotplug callback did, or NoHp
    sq,             \* reconciling one class: its progress and the results
    th              \* the threads that hold or wait for the lock of one device

vars == <<phase, devs, classes, sysprops, online, work_pending, work_running,
          resctrl_inits, resctrl_cfg, call, irq_log, oops, rt, hp, sq, th>>

\* struct mpam_component_cfg_update: one feature, a partid and a value
NullCfg == [feat |-> "none", partid |-> 0, mpam_cfg |-> {}]
NoCfg == [held |-> FALSE, class |-> <<0, "none">>, comp |-> 0, cfg |-> NullCfg]
NoCall == [active |-> FALSE]
NoIrq == [errcode |-> 0, ret |-> "none", logged |-> "none"]
NoRt == [pc |-> "off", cfg |-> NullCfg, ret |-> OK, snap |-> <<>>, before |-> <<>>]
\* a hotplug callback: the CPU, what it returned, the devices it reset, each
\* with the online affinity and the probed flag the reset found, and the probes
\* it made, each with its result
NoHp == [kind |-> "none", cpu |-> 0, ret |-> OK, reset |-> {}, probes |-> <<>>]
NoSq == [pc |-> "off", fds |-> <<>>, once |-> <<>>, twice |-> <<>>, other |-> <<>>]
\* per thread the register accesses and barriers of the operation it runs and
\* how many of them it has made; the access made last and where it landed
NoTh == [on |-> FALSE, prog |-> <<>>, at |-> <<>>, op |-> <<>>, cpu |-> <<>>,
         last |-> <<>>]

\* ------------------------------------------------------ register accessors
PART_SEL_KEY == <<"MPAMCFG_PART_SEL", 0, 0>>
ECR_KEY == <<"MPAMF_ECR", 0, 0>>
ESR_KEY == <<"MPAMF_ESR", 0, 0>>
\* the interrupt-enable bit of MPAMF_ECR
MPAMF_ECR_INTEN == {0}

\* registers that are banked by the partid selected in MPAMCFG_PART_SEL
BankedRegs == {"MPAMCFG_CMAX", "MPAMCFG_CPBM", "MPAMCFG_MBW_PBM", "MPAMCFG_MBW_MIN",
               "MPAMCFG_MBW_MAX", "MPAMCFG_MBW_PROP", "MPAMCFG_PRI"}

RegKey(regs, reg, word) ==
    IF reg \in BankedRegs
    THEN <<reg, IF PART_SEL_KEY \in DOMAIN regs THEN regs[PART_SEL_KEY] ELSE 0, word>>
    ELSE <<reg, 0, 0>>

\* the checks every register access makes: assert_spin_locked(&dev->lock) and
\* WARN_ON_ONCE(!cpumask_test_cpu(smp_processor_id(), &dev->fw_affinity));
\* what they found stays recorded in the device
RegAccess(dev, cpu) ==
    [dev EXCEPT !.unlocked_access = @ \/ dev.lock # {cpu},
                !.foreign_access = @ \/ cpu \notin dev.fw_affinity]

\* what a traced device records of an operation, in program order: taking and
\* dropping the lock, register reads and writes, barriers; sel is the partid
\* that MPAMCFG_PART_SEL held when the operation made the access
Event(dev, op, reg, word, val) ==
    [op |-> op, reg |-> reg, word |-> word, val |-> val,
     sel |-> IF PART_SEL_KEY \in DOMAIN dev.regs THEN dev.regs[PART_SEL_KEY] ELSE 0]

Logged(dev, ev) == IF dev.traced THEN [dev EXCEPT !.log = Append(@, ev)] ELSE dev

mpam_read_reg(dev, cpu) ==
    Logged(RegAccess(dev, cpu), Event(dev, "read", "", 0, {}))

mpam_write_reg(dev, reg, word, val, cpu) ==
    LET key == RegKey(dev.regs, reg, word) IN
    Logged([RegAccess(dev, cpu) EXCEPT
                !.regs = [k \in (DOMAIN dev.regs) \cup {key} |->
                             IF k = key THEN val ELSE dev.regs[k]]],
           Event(dev, "write", reg, word, val))

\* a lock that is not taken
spin_lock_skipped(dev, cpu) == dev

spin_lock(dev, cpu) ==
    Logged([dev EXCEPT !.lock = {cpu}], Event(dev, "lock", "", 0, {}))
spin_unlock(dev) ==
    Logged([dev EXCEPT !.lock = {}], Event(dev, "unlock", "", 0, {}))

\* a write barrier that orders nothing
wmb_elided(dev) == dev

\* wmb(): the writes before it reach the MSC before the writes after it
wmb(dev) == Logged(dev, Event(dev, "wmb", "", 0, {}))

\* mb(): the accesses before it have completed when it returns
mb(dev) == Logged(dev, Event(dev, "mb", "", 0, {}))

\* ------------------------------------------------------ topology hierarchy
\* kzalloc()ed struct mpam_device, linked to its component
mpam_device_alloc(ci, comp_id) ==
    [class |-> ci, comp |-> comp_id,
     fw_affinity |-> {}, online_affinity |-> {},
     probed |-> FALSE, features |-> {},
     cmax_wd |-> 0, cpbm_wd |-> 0, mbw_pbm_bits |-> 0, bwa_wd |-> 0,
     intpri_wd |-> 0, dspri_wd |-> 0, num_csu_mon |-> 0, num_mbwu_mon |-> 0,
     error_irq_flags |-> {}, enable_error_irq |-> FALSE, irq_registered |-> FALSE,
     mapped_hwpage |-> FALSE, traced |-> FALSE, log |-> <<>>, hw |-> HwNone, regs |-> <<>>, lock |-> {},
     unlocked_access |-> FALSE, foreign_access |-> FALSE]

mpam_component_alloc(id) == [id |-> id, fw_affinity |-> {}, devices |-> <<>>]

mpam_class_alloc(level_idx, type) ==
    [type |-> type, level |-> level_idx, fw_affinity |-> {}, components |-> <<>>,
     features |-> {}, cpbm_wd |-> 0, mbw_pbm_bits |-> 0, bwa_wd |-> 0,
     intpri_wd |-> 0, dspri_wd |-> 0, num_csu_mon |-> 0, num_mbwu_mon |-> 0]

\* index of the class of this type and level in the class list, 0 if none
FindClass(cls, level_idx, type) ==
    LET hit == {i \in 1 .. Len(cls) : cls[i].type = type /\ cls[i].level = level_idx}
    IN IF hit = {} THEN 0 ELSE MinOf(hit)

\* index of the component with this id in the class' list, 0 if none (-ENOENT)
FindComponent(class, id) ==
    LET hit == {k \in 1 .. Len(class.components) : class.components[k].id = id}
    IN IF hit = {} THEN 0 ELSE MinOf(hit)

\* a lookup that allocates a class whether or not one matches
mpam_class_get_always_allocs(cls, level_idx, type) ==
    <<mpam_class_alloc(level_idx, type)>> \o cls

\* mpam_class_get(level_idx, type, true): the class list with the class in it
mpam_class_get(cls, level_idx, type) ==
    IF FindClass(cls, level_idx, type) # 0 THEN cls
    ELSE <<mpam_class_alloc(level_idx, type)>> \o cls

\* mpam_component_get(class, id, true): the class with the component in it
mpam_component_get(class, id) ==
    IF FindComponent(class, id) # 0 THEN class
    ELSE [class EXCEPT !.components = <<mpam_component_alloc(id)>> \o @]

\* the allocation that fails in a creation call: kzalloc() of the class, of the
\* component or of the device, or ioremap() of the register window
AllocFailures == {"class", "component", "device", "ioremap"}

\* __mpam_device_create(): [classes, devs, ret]; `fail' is the allocation that
\* fails in this call, "none" when every one succeeds
mpam_device_create(cls, ds, level_idx, type, component_id, fw, hw, fail) ==
    LET fw_affinity == IF fw = {} THEN cpu_possible_mask ELSE fw
        cls1 == mpam_class_get(cls, level_idx, type)
        ci == FindClass(cls1, level_idx, type)
        class1 == mpam_component_get(cls1[ci], component_id)
        k == FindComponent(class1, component_id)
        di == Len(ds) + 1
        comp1 == [class1.components[k] EXCEPT
                    !.fw_affinity = IF type # MPAM_CLASS_CACHE
                                    THEN @ \cup fw_affinity ELSE @]
        comp2 == [comp1 EXCEPT !.devices = <<di>> \o @]
        dev == [mpam_device_alloc(<<level_idx, type>>, component_id) EXCEPT
                    !.fw_affinity = fw_affinity, !.hw = hw,
                    !.mapped_hwpage = fail # "ioremap"]
    IN IF fail = "class" /\ FindClass(cls, level_idx, type) = 0
       THEN [classes |-> cls, devs |-> ds, ret |-> ENOMEM]
       ELSE IF fail = "component" /\ FindComponent(cls1[ci], component_id) = 0
       THEN [classes |-> cls1, devs |-> ds, ret |-> ENOMEM]
       ELSE IF fail = "device"
       THEN [classes |-> [cls1 EXCEPT ![ci] = [class1 EXCEPT !.components[k] = comp1]],
             devs |-> ds, ret |-> ENOMEM]
       ELSE [classes |-> [cls1 EXCEPT ![ci] = [class1 EXCEPT !.components[k] = comp2]],
             devs |-> Append(ds, dev),
             ret |-> IF fail = "ioremap" THEN ENOMEM ELSE OK]

\* mpam_class_destroy(): the components and their devices are freed
mpam_class_destroy(class) == [class EXCEPT !.components = <<>>]

mpam_device_set_error_irq(dev, flags) == [dev EXCEPT !.error_irq_flags = flags]

\* the devices of the component (class key, component id), in list order
CompDevices(cls, ckey, comp_id) ==
    LET ci == FindClass(cls, ckey[1], ckey[2])
        k == FindComponent(cls[ci], comp_id)
    IN cls[ci].components[k].devices

\* mpam_all_devices: every device, the last created first
mpam_all_devices(ds) == [i \in 1 .. Len(ds) |-> Len(ds) + 1 - i]

\* ------------------------------------------------------- capability prober
\* a summary that takes the values of the device probed last
mpam_probe_update_sysprops_last(sys, max_partid, max_pmg) ==
    [sys EXCEPT !.max_partid = max_partid, !.max_pmg = max_pmg]

mpam_probe_update_sysprops(sys, max_partid, max_pmg) ==
    [sys EXCEPT !.max_partid = MinInt(@, max_partid),
                !.max_pmg = MinInt(@, max_pmg)]

ProbeCcap(dev, cpu) ==
    IF dev.hw.has_ccap_part
    THEN LET d == mpam_read_reg(dev, cpu) IN
         [d EXCEPT !.cmax_wd = dev.hw.cmax_wd,
                   !.features = IF dev.hw.cmax_wd # 0
                                THEN mpam_set_feature("mpam_feat_ccap_part", @) ELSE @]
    ELSE dev

ProbeCpor(dev, cpu) ==
    IF dev.hw.has_cpor_part
    THEN LET d == mpam_read_reg(dev, cpu) IN
         [d EXCEPT !.cpbm_wd = dev.hw.cpbm_wd,
                   !.features = IF dev.hw.cpbm_wd # 0
                                THEN mpam_set_feature("mpam_feat_cpor_part", @) ELSE @]
    ELSE dev

ProbeMbw(dev, cpu) ==
    IF dev.hw.has_mbw_part
    THEN LET d == mpam_read_reg(dev, cpu)
             hw == dev.hw
             f1 == IF hw.bwpbm_wd # 0 /\ hw.has_pbm THEN {"mpam_feat_mbw_part"} ELSE {}
             f2 == IF hw.bwa_wd # 0 /\ hw.has_max THEN {"mpam_feat_mbw_max"} ELSE {}
             f3 == IF hw.bwa_wd # 0 /\ hw.has_min THEN {"mpam_feat_mbw_min"} ELSE {}
             f4 == IF hw.bwa_wd # 0 /\ hw.has_prop THEN {"mpam_feat_mbw_prop"} ELSE {}
         IN [d EXCEPT !.mbw_pbm_bits = hw.bwpbm_wd, !.bwa_wd = hw.bwa_wd,
                      !.features = @ \cup f1 \cup f2 \cup f3 \cup f4]
    ELSE dev

ProbePri(dev, cpu) ==
    IF dev.hw.has_pri_part
    THEN LET d == mpam_read_reg(dev, cpu)
             hw == dev.hw
             fi == IF hw.intpri_wd # 0 /\ hw.has_intpri
                   THEN {"mpam_feat_intpri_part"} \cup
                        (IF hw.intpri_0_is_low THEN {"mpam_feat_intpri_part_0_low"} ELSE {})
                   ELSE {}
             fd == IF hw.dspri_wd # 0 /\ hw.has_dspri
                   THEN {"mpam_feat_dspri_part"} \cup
                        (IF hw.dspri_0_is_low THEN {"mpam_feat_dspri_part_0_low"} ELSE {})
                   ELSE {}
         IN [d EXCEPT !.intpri_wd = hw.intpri_wd, !.dspri_wd = hw.dspri_wd,
                      !.features = @ \cup fi \cup fd]
    ELSE dev

ProbeMsmon(dev, cpu) ==
    IF dev.hw.has_msmon
    THEN LET d == mpam_read_reg(dev, cpu)
             hw == dev.hw
             d1 == IF hw.msmon_csu
                   THEN [d EXCEPT !.num_csu_mon = hw.csu_num_mon,
                                  !.features = IF hw.csu_num_mon # 0
                                      THEN mpam_set_feature("mpam_feat_msmon_csu", @) ELSE @]
                   ELSE d
         IN IF hw.msmon_mbwu
            THEN [d1 EXCEPT !.num_mbwu_mon = hw.mbwu_num_mon,
                            !.features = IF hw.mbwu_num_mon # 0
                                THEN mpam_set_feature("mpam_feat_msmon_mbwu", @) ELSE @]
            ELSE d1
    ELSE dev

\* the five optional feature groups, in the order they are read
ProbeGroups(dev, cpu) ==
    ProbeMsmon(ProbePri(ProbeMbw(ProbeCpor(ProbeCcap(dev, cpu), cpu), cpu), cpu), cpu)

\* a probe that reads the feature groups and never marks the device probed
mpam_device_probe_unmarked(dev, sys, cpu) ==
    [err |-> IF dev.hw.aidr # MPAM_ARCHITECTURE_V1 THEN EIO ELSE OK,
     dev |-> ProbeGroups(mpam_read_reg(mpam_read_reg(dev, cpu), cpu), cpu),
     sys |-> mpam_probe_update_sysprops(sys, dev.hw.partid_max, dev.hw.pmg_max)]

\* a probe that looks at the architecture version after everything else
mpam_device_probe_checks_late(dev, sys, cpu) ==
    [err |-> IF dev.hw.aidr # MPAM_ARCHITECTURE_V1 THEN EIO ELSE OK,
     dev |-> [ProbeGroups(mpam_read_reg(mpam_read_reg(dev, cpu), cpu), cpu)
                  EXCEPT !.probed = dev.hw.aidr = MPAM_ARCHITECTURE_V1],
     sys |-> mpam_probe_update_sysprops(sys, dev.hw.partid_max, dev.hw.pmg_max)]

\* mpam_device_probe(), run on `cpu': [err, dev, sys]
mpam_device_probe(dev, sys, cpu) ==
    IF dev.hw.aidr # MPAM_ARCHITECTURE_V1
    THEN [err |-> EIO, dev |-> mpam_read_reg(dev, cpu), sys |-> sys]
    ELSE [err |-> OK,
          dev |-> [ProbeGroups(mpam_read_reg(mpam_read_reg(dev, cpu), cpu), cpu)
                       EXCEPT !.probed = TRUE],
          sys |-> mpam_probe_update_sysprops(sys, dev.hw.partid_max, dev.hw.pmg_max)]

\* -------------------------------------------------------- reset and apply
RECURSIVE WriteFullWords(_, _, _, _, _)
WriteFullWords(dev, reg, i, n, cpu) ==
    IF i >= n THEN dev
    ELSE WriteFullWords(mpam_write_reg(dev, reg, i, AllOnes32, cpu), reg, i + 1, n, cpu)

mpam_reset_device_bitmap(dev, reg, wd, cpu) ==
    LET d1 == WriteFullWords(dev, reg, 0, wd \div 32, cpu)
        bm == u32(GENMASK(wd % 32, 0))
    IN IF bm # {} THEN mpam_write_reg(d1, reg, wd \div 32, bm, cpu) ELSE d1

\* position of the downstream priority field in MPAMCFG_PRI
MPAMCFG_PRI_DSPRI_SHIFT == 16

\* the MPAMCFG_PRI value of a reset
ResetPriVal(dev) ==
    LET intpri == IF mpam_has_feature("mpam_feat_intpri_part_0_low", dev.features)
                  THEN u16(GENMASK(dev.intpri_wd, 0)) ELSE {}
        dspri == IF mpam_has_feature("mpam_feat_dspri_part_0_low", dev.features)
                 THEN u16(GENMASK(dev.dspri_wd, 0)) ELSE {}
    IN (IF mpam_has_feature("mpam_feat_intpri_part", dev.features) THEN intpri ELSE {})
       \cup (IF mpam_has_feature("mpam_feat_dspri_part", dev.features)
             THEN Shl(dspri, MPAMCFG_PRI_DSPRI_SHIFT) ELSE {})

WriteIf(cond, dev, reg, val, cpu) ==
    IF cond THEN mpam_write_reg(dev, reg, 0, val, cpu) ELSE dev

mpam_reset_device_partid(dev, partid, cpu) ==
    LET f == dev.features
        cmax == u16(GENMASK(dev.cmax_wd, 0))
        bwa_fract == u16(GENMASK(15, dev.bwa_wd))
    IN IF ~mpam_has_part_sel(f) THEN dev
       ELSE LET d1 == wmb(mpam_write_reg(dev, "MPAMCFG_PART_SEL", 0, partid, cpu))
                d2 == WriteIf(mpam_has_feature("mpam_feat_ccap_part", f), d1,
                              "MPAMCFG_CMAX", cmax, cpu)
                d3 == IF mpam_has_feature("mpam_feat_cpor_part", f)
                      THEN mpam_reset_device_bitmap(d2, "MPAMCFG_CPBM", dev.cpbm_wd, cpu)
                      ELSE d2
                d4 == IF mpam_has_feature("mpam_feat_mbw_part", f)
                      THEN mpam_reset_device_bitmap(d3, "MPAMCFG_MBW_PBM", dev.mbw_pbm_bits, cpu)
                      ELSE d3
                d5 == WriteIf(mpam_has_feature("mpam_feat_mbw_min", f), d4,
                              "MPAMCFG_MBW_MIN", bwa_fract, cpu)
                d6 == WriteIf(mpam_has_feature("mpam_feat_mbw_max", f), d5,
                              "MPAMCFG_MBW_MAX", bwa_fract, cpu)
                d7 == WriteIf(mpam_has_feature("mpam_feat_mbw_prop", f), d6,
                              "MPAMCFG_MBW_PROP", bwa_fract, cpu)
            IN mb(WriteIf(mpam_has_feature("mpam_feat_intpri_part", f)
                            \/ mpam_has_feature("mpam_feat_dspri_part", f),
                          d7, "MPAMCFG_PRI", ResetPriVal(dev), cpu))

\* the register a configuration of this feature is written to, "" if none
ApplyReg(feat) ==
    CASE feat = "mpam_feat_mbw_max" -> "MPAMCFG_MBW_MAX"
      [] feat = "mpam_feat_cpor_part" -> "MPAMCFG_CPBM"
      [] feat = "mpam_feat_mbw_part" -> "MPAMCFG_MBW_PBM"
      [] OTHER -> ""

\* an apply that selects the partid before it looks at the request
apply_config_select_first(dev, arg, cpu) ==
    LET d1 == mpam_write_reg(dev, "MPAMCFG_PART_SEL", 0, arg.partid, cpu) IN
    IF ~mpam_has_feature(arg.feat, dev.features) THEN [ret |-> EOPNOTSUPP, dev |-> d1]
    ELSE IF arg.mpam_cfg = {} THEN [ret |-> EINVAL, dev |-> d1]
    ELSE IF ApplyReg(arg.feat) = "" THEN [ret |-> EIO, dev |-> d1]
    ELSE [ret |-> OK, dev |-> mpam_write_reg(d1, ApplyReg(arg.feat), 0, arg.mpam_cfg, cpu)]

\* __apply_config(): [ret, dev]
apply_config(dev, arg, cpu) ==
    IF ~mpam_has_feature(arg.feat, dev.features) THEN [ret |-> EOPNOTSUPP, dev |-> dev]
    ELSE IF arg.mpam_cfg = {} THEN [ret |-> EINVAL, dev |-> dev]
    ELSE IF ApplyReg(arg.feat) = "" THEN [ret |-> EIO, dev |-> dev]
    ELSE LET d1 == wmb(mpam_write_reg(dev, "MPAMCFG_PART_SEL", 0, arg.partid, cpu))
         IN [ret |-> OK,
             dev |-> mb(mpam_write_reg(d1, ApplyReg(arg.feat), 0, arg.mpam_cfg, cpu))]

\* mpam_resctrl_get_converted_config(): the configuration the policy layer holds
\* for this partid of this component, NullCfg (NULL) if none
mpam_resctrl_get_converted_config(rcfg, ckey, comp_id, partid) ==
    IF rcfg.held /\ rcfg.class = ckey /\ rcfg.comp = comp_id /\ rcfg.cfg.partid = partid
    THEN rcfg.cfg ELSE NullCfg

RECURSIVE ResetPartids(_, _, _, _, _)
ResetPartids(dev, partid, max_partid, rcfg, cpu) ==
    IF partid >= max_partid THEN dev
    ELSE LET Reapply(d1, cfg_p) ==
                 IF cfg_p # NullCfg THEN apply_config(d1, cfg_p, cpu).dev ELSE d1
         IN ResetPartids(
                Reapply(mpam_reset_device_partid(dev, partid, cpu),
                        mpam_resctrl_get_converted_config(rcfg, dev.class, dev.comp,
                                                          partid)),
                partid + 1, max_partid, rcfg, cpu)

\* mpam_reset_device(), with the device lock held, on `cpu'
mpam_reset_device(dev, sys, rcfg, cpu) ==
    ResetPartids(IF dev.enable_error_irq
                 THEN mpam_write_reg(dev, "MPAMF_ECR", 0, MPAMF_ECR_INTEN, cpu) ELSE dev,
                 0, sys.max_partid, rcfg, cpu)

\* mpam_device_apply_config(): [ret, dev]; cfg is NullCfg for a reset
mpam_device_apply_config(dev, cfg, sys, rcfg, cpu) ==
    LET Unlocked(r) == [ret |-> r.ret, dev |-> spin_unlock(r.dev)] IN
    IF cfg # NullCfg
    THEN Unlocked(apply_config(spin_lock(dev, cpu), cfg, cpu))
    ELSE [ret |-> OK,
          dev |-> spin_unlock(mpam_reset_device(spin_lock(dev, cpu), sys, rcfg, cpu))]

\* ------------------------------------------------ configuration broadcaster
\* struct mpam_device_cfg_update, with the record of what the call did:
\* trace holds one entry per device-apply and per smp_call_function_single()
NewCfgUpdate(ckey, comp_id, cfg) ==
    [class |-> ckey, comp |-> comp_id, cfg |-> cfg,
     updated_on |-> {}, first_error |-> OK, trace |-> <<>>, pass |-> 0]

\* an unconditional store in place of the compare and exchange
RecordLastError(first_error, err) == err

\* cmpxchg(&cfg_update->first_error, 0, err)
RecordError(first_error, err) == IF first_error = OK THEN err ELSE first_error

\* a local pass that does not look at updated_on
LocalSkipUnreachable(dev, updated_on, cpu) == cpu \notin dev.online_affinity

\* the devices mpam_component_apply_all_local() passes over on `cpu'
LocalSkip(dev, updated_on, cpu) ==
    \/ cpumask_intersects(dev.online_affinity, updated_on)
    \/ cpu \notin dev.online_affinity

RECURSIVE LocalLoop(_, _, _, _, _, _, _)
LocalLoop(ds, cu, list, i, sys, rcfg, cpu) ==
    IF i > Len(list) THEN [devs |-> ds, cu |-> cu]
    ELSE LET Applied(di, r) ==
                 LocalLoop([ds EXCEPT ![di] = r.dev],
                           [cu EXCEPT
                              !.first_error = IF r.ret # OK THEN RecordError(@, r.ret) ELSE @,
                              !.trace = Append(@, [kind |-> "apply", dev |-> di, cpu |-> cpu,
                                                   err |-> r.ret, pass |-> cu.pass])],
                           list, i + 1, sys, rcfg, cpu)
         IN IF LocalSkip(ds[list[i]], cu.updated_on, cpu)
            THEN LocalLoop(ds, cu, list, i + 1, sys, rcfg, cpu)
            ELSE Applied(list[i],
                         mpam_device_apply_config(ds[list[i]], cu.cfg, sys, rcfg, cpu))

\* mpam_component_apply_all_local(), run on `cpu'
mpam_component_apply_all_local(cls, ds, cu, sys, rcfg, cpu) ==
    LET Done(r) == [devs |-> r.devs, cu |-> [r.cu EXCEPT !.updated_on = @ \cup {cpu}]]
    IN Done(LocalLoop(ds, cu, CompDevices(cls, cu.class, cu.comp), 1, sys, rcfg, cpu))

\* a target taken from the firmware affinity
RemoteTargetFw(dev) == cpumask_any(dev.fw_affinity)

\* the CPU a device that was not reached yet is updated from
RemoteTarget(dev) == cpumask_any(dev.online_affinity)

\* a remote loop that goes on after an error
RemoteNeverStops(cu) == FALSE

\* the remote loop stops at the first recorded error
RemoteStop(cu) == cu.first_error # OK

\* a remote loop that dispatches nothing
RemoteSkipAll(dev, updated_on) == TRUE

\* the remote loop passes over the devices an earlier pass reached
RemoteSkip(dev, updated_on) == cpumask_intersects(dev.online_affinity, updated_on)

\* smp_call_function_single(cpu, mpam_component_apply_all_local, &cfg_update, 1):
\* -ENXIO and nothing run when the CPU does not exist or is not online
smp_call_function_single(cls, ds, cu, sys, rcfg, onl, di, cpu) ==
    LET Call(ran, cu1) ==
            IF ran THEN mpam_component_apply_all_local(cls, ds, cu1, sys, rcfg, cpu)
            ELSE [devs |-> ds, cu |-> cu1]
        Dispatched(ran) ==
            Call(ran, [cu EXCEPT
                         !.pass = @ + 1,
                         !.trace = Append(@, [kind |-> "dispatch", dev |-> di, cpu |-> cpu,
                                              err |-> IF ran THEN OK ELSE ENXIO,
                                              pass |-> cu.pass + 1])])
    IN Dispatched(cpu < nr_cpu_ids /\ cpu \in onl)

RECURSIVE RemoteLoop(_, _, _, _, _, _, _, _)
RemoteLoop(cls, ds, cu, list, i, sys, rcfg, onl) ==
    IF i > Len(list) \/ RemoteStop(cu) THEN [devs |-> ds, cu |-> cu]
    ELSE LET Returned(r) == RemoteLoop(cls, r.devs, r.cu, list, i + 1, sys, rcfg, onl)
         IN IF RemoteSkip(ds[list[i]], cu.updated_on)
            THEN RemoteLoop(cls, ds, cu, list, i + 1, sys, rcfg, onl)
            ELSE Returned(smp_call_function_single(cls, ds, cu, sys, rcfg, onl, list[i],
                                                   RemoteTarget(ds[list[i]])))

\* a caller that never updates locally
RunsNowhere(comp, cpu) == FALSE

\* the calling CPU updates what it can reach when it is in the component's affinity
RunsLocally(comp, cpu) == cpu \in comp.fw_affinity

\* mpam_component_apply_all(class, comp, cfg) called on `cpu': [devs, cu]
mpam_component_apply_all(cls, ds, ckey, comp_id, cfg, sys, rcfg, onl, cpu) ==
    LET Remote(comp, r1) ==
            RemoteLoop(cls, r1.devs, r1.cu, comp.devices, 1, sys, rcfg, onl)
        Local(comp, cu0) ==
            Remote(comp, IF RunsLocally(comp, cpu)
                         THEN mpam_component_apply_all_local(cls, ds, cu0, sys, rcfg, cpu)
                         ELSE [devs |-> ds, cu |-> cu0])
        OfClass(class) ==
            Local(class.components[FindComponent(class, comp_id)],
                  NewCfgUpdate(ckey, comp_id, cfg))
    IN OfClass(cls[FindClass(cls, ckey[1], ckey[2])])

\* ------------------------------------------------------- feature reconciler
\* a reconciler that takes every bitmap width for the class's
WidthMatchesAlways(class_wd, dev_wd) == FALSE

\* the bitmap widths of the class and the device differ
WidthMismatch(class_wd, dev_wd) == class_wd # dev_wd

\* a reconciler that keeps the class's number
NarrowKeepsClass(class_num, dev_num) == class_num

\* a reconciler that takes the number of the device it saw last
NarrowTakesDevice(class_num, dev_num) == dev_num

\* 'For num properties, take the minimum'
NarrowNum(class_num, dev_num) ==
    IF class_num # dev_num THEN MinInt(class_num, dev_num) ELSE class_num

\* a reconciler that never finds the polarities to differ
PolarityMatchesAlways(feat_0_low, class_features, dev_features) == FALSE

\* '{int,ds}pri may not have differing 0-low behaviour'
PolarityMismatch(feat_0_low, class_features, dev_features) ==
    mpam_has_feature(feat_0_low, class_features)
        # mpam_has_feature(feat_0_low, dev_features)

device_class_feature_mismatch(dev, class) ==
    LET f1 == IF WidthMismatch(class.cpbm_wd, dev.cpbm_wd)
              THEN mpam_clear_feature("mpam_feat_cpor_part", class.features)
              ELSE class.features
        f2 == IF WidthMismatch(class.mbw_pbm_bits, dev.mbw_pbm_bits)
              THEN mpam_clear_feature("mpam_feat_mbw_part", f1) ELSE f1
        f3 == IF PolarityMismatch("mpam_feat_intpri_part_0_low", f2, dev.features)
              THEN mpam_clear_feature("mpam_feat_intpri_part", f2) ELSE f2
        f4 == IF PolarityMismatch("mpam_feat_dspri_part_0_low", f3, dev.features)
              THEN mpam_clear_feature("mpam_feat_dspri_part", f3) ELSE f3
    IN [class EXCEPT !.features = f4,
                     !.num_csu_mon = NarrowNum(@, dev.num_csu_mon),
                     !.num_mbwu_mon = NarrowNum(@, dev.num_mbwu_mon),
                     !.bwa_wd = NarrowNum(@, dev.bwa_wd),
                     !.intpri_wd = NarrowNum(@, dev.intpri_wd),
                     !.dspri_wd = NarrowNum(@, dev.dspri_wd)]

\* the class with the first component's first device's properties copied in
SquashSeed(class, dev) ==
    [class EXCEPT !.features = dev.features, !.cpbm_wd = dev.cpbm_wd,
                  !.mbw_pbm_bits = dev.mbw_pbm_bits, !.bwa_wd = dev.bwa_wd,
                  !.intpri_wd = dev.intpri_wd, !.dspri_wd = dev.dspri_wd,
                  !.num_csu_mon = dev.num_csu_mon, !.num_mbwu_mon = dev.num_mbwu_mon]

\* every device of the class, component by component, in list order
RECURSIVE ClassDevices(_, _)
ClassDevices(class, k) ==
    IF k > Len(class.components) THEN <<>>
    ELSE class.components[k].devices \o ClassDevices(class, k + 1)

\* a reconciler that leaves the class's flags as the mismatch pass left them
SquashKeepsFlags(class_features, dev_features) == class_features

\* class->features &= dev->features
SquashFlags(class_features, dev_features) == class_features \cap dev_features

RECURSIVE SquashDevices(_, _, _, _)
SquashDevices(class, ds, list, i) ==
    IF i > Len(list) THEN class
    ELSE LET Fixed(c1) ==
                 SquashDevices([c1 EXCEPT
                                  !.features = SquashFlags(@, ds[list[i]].features)],
                               ds, list, i + 1)
         IN Fixed(device_class_feature_mismatch(ds[list[i]], class))

\* mpam_enable_squash_features(): the class list with the class records set;
\* a component without a device ends the walk over the classes
RECURSIVE mpam_enable_squash_features(_, _, _)
mpam_enable_squash_features(cls, ds, i) ==
    IF i > Len(cls) THEN cls
    ELSE LET class == cls[i] IN
         IF Len(class.components) = 0
         THEN mpam_enable_squash_features(cls, ds, i + 1)
         ELSE IF Len(class.components[1].devices) = 0 THEN cls
         ELSE LET seeded == SquashSeed(class, ds[class.components[1].devices[1]])
                  done == SquashDevices(seeded, ds, ClassDevices(class, 1), 1)
              IN mpam_enable_squash_features([cls EXCEPT ![i] = done], ds, i + 1)

\* ----------------------------------------------------------- error reporter
\* an interrupt of either mode is registered whatever the affinity
IrqRegistrableAnyAffinity(dev) == TRUE

\* a level interrupt is registered only when every possible CPU reaches the MSC
IrqRegistrable(dev) ==
    IF MPAM_IRQ_MODE_LEVEL \in dev.error_irq_flags
    THEN cpu_possible_mask \ dev.fw_affinity = {}
    ELSE TRUE

\* mpam_enable_irqs(); request_irq() fails for the devices in irq_fail
mpam_enable_irqs(ds, irq_fail) ==
    [di \in 1 .. Len(ds) |->
        IF IrqRegistrable(ds[di]) /\ di \notin irq_fail
        THEN [ds[di] EXCEPT !.enable_error_irq = TRUE, !.irq_registered = TRUE]
        ELSE ds[di]]

\* number of entries of mpam_msc_err_str[]
MPAM_NUM_ERRCODE == 8

\* mpam_handle_error_irq() on `cpu', the device's MPAMF_ESR holding errcode
mpam_handle_error_irq(dev, errcode, cpu) ==
    LET d1 == spin_unlock(mpam_read_reg(spin_lock(dev, cpu), cpu)) IN
    IF errcode = 0
    THEN [ret |-> "IRQ_NONE", logged |-> "none", dev |-> d1]
    ELSE [ret |-> "IRQ_HANDLED",
          logged |-> IF errcode <= MPAM_NUM_ERRCODE
                     THEN (IF errcode < MPAM_NUM_ERRCODE THEN "name" ELSE "past_end")
                     ELSE "number",
          dev |-> spin_unlock(mpam_write_reg(spin_lock(d1, cpu), "MPAMF_ESR", 0, {}, cpu))]

\* -------------------------------------------------- core lifecycle integrator
\* an enablement check that does not look at the devices
AllProbedUnchecked(ds) == TRUE

\* 'Have we probed all the devices?'
AllProbed(ds) == \A di \in 1 .. Len(ds) : ds[di].probed

\* an online pass that takes every device of the component
OnlineSkipNone(dev, cpu) == FALSE

\* __online_devices() passes over the devices the CPU cannot reach
OnlineSkip(dev, cpu) == cpu \notin dev.fw_affinity

\* an online pass that resets the device for every CPU that joins it
OnlineResetsAlways(dev) == TRUE

\* __online_devices() resets the device when no CPU was online for it
OnlineResets(dev) == dev.online_affinity = {}

RECURSIVE OnlineDevicesLoop(_, _, _, _, _, _, _, _, _, _)
OnlineDevicesLoop(ds, sys, list, i, rcfg, cpu, err, new_device_probed, reset, probes) ==
    IF i > Len(list)
    THEN [devs |-> ds, sys |-> sys, ret |-> IF new_device_probed THEN "1" ELSE OK,
          reset |-> reset, probes |-> probes]
    ELSE LET Onlined(p, new1, d1, reset1, probes1) ==
                 IF p.err # OK
                 THEN [devs |-> [ds EXCEPT ![list[i]] =
                                    spin_unlock([d1 EXCEPT !.online_affinity = @ \cup {cpu}])],
                       sys |-> p.sys, ret |-> p.err, reset |-> reset1,
                       probes |-> probes1]
                 ELSE OnlineDevicesLoop(
                          [ds EXCEPT ![list[i]] =
                              spin_unlock([d1 EXCEPT !.online_affinity = @ \cup {cpu}])],
                          p.sys, list, i + 1, rcfg, cpu, p.err, new1, reset1, probes1)
             Probed(was_probed, p) ==
                 Onlined(p, new_device_probed \/ (~was_probed /\ p.err = OK),
                         IF OnlineResets(p.dev)
                         THEN mpam_reset_device(p.dev, p.sys, rcfg, cpu) ELSE p.dev,
                         IF OnlineResets(p.dev)
                         THEN reset \cup {[dev |-> list[i],
                                           affinity |-> p.dev.online_affinity,
                                           probed |-> p.dev.probed]}
                         ELSE reset,
                         IF was_probed THEN probes
                         ELSE Append(probes, [dev |-> list[i], err |-> p.err]))
             Locked(d0) ==
                 Probed(d0.probed,
                        IF ~d0.probed THEN mpam_device_probe(d0, sys, cpu)
                        ELSE [err |-> err, dev |-> d0, sys |-> sys])
         IN IF OnlineSkip(ds[list[i]], cpu)
            THEN OnlineDevicesLoop(ds, sys, list, i + 1, rcfg, cpu, err,
                                   new_device_probed, reset, probes)
            ELSE Locked(spin_lock(ds[list[i]], cpu))

\* __online_devices(): [devs, sys, ret, reset, probes], ret "1" when a device
\* was newly probed
online_devices(ds, sys, comp, rcfg, cpu) ==
    OnlineDevicesLoop(ds, sys, comp.devices, 1, rcfg, cpu, OK, FALSE, {}, <<>>)

\* mpam_sync_cpu_cache_component_fw_affinity(): the lookup's -ENOENT is not
\* NULL, so a missing component is written through a wild pointer
mpam_sync_cpu_cache_component_fw_affinity(class, sys, cpu) ==
    IF class.type # MPAM_CLASS_CACHE THEN [class |-> class, sys |-> sys, oops |-> FALSE]
    ELSE LET Found(k, sys1) ==
                 IF k = 0 THEN [class |-> class, sys |-> sys1, oops |-> TRUE]
                 ELSE [class |-> [class EXCEPT !.components[k].fw_affinity = @ \cup {cpu},
                                               !.fw_affinity = @ \cup {cpu}],
                       sys |-> sys1, oops |-> FALSE]
         IN Found(FindComponent(class, get_cpu_cacheinfo_id(cpu, class.level)),
                  [sys EXCEPT !.mpam_llc_size =
                       MaxInt(@, get_cpu_cache_leaf_size(cpu, class.level))])

\* the walk over the components of one class; a probe failure ends it
RECURSIVE OnlineComponents(_, _, _, _, _, _)
OnlineComponents(w, class, k, rcfg, cpu, started) ==
    IF k > Len(class.components) THEN w
    ELSE IF cpu \notin class.components[k].fw_affinity
         THEN OnlineComponents(w, class, k + 1, rcfg, cpu, started)
         ELSE LET Went(w1) ==
                      IF w1.err \notin {OK, "1"} THEN w1
                      ELSE OnlineComponents(w1, class, k + 1, rcfg, cpu, started)
                  Returned(r) ==
                      Went([w EXCEPT !.devs = r.devs, !.sys = r.sys, !.err = r.ret,
                                     !.new_device_probed = @ \/ r.ret = "1",
                                     !.reset = @ \cup r.reset,
                                     !.probes = @ \o r.probes])
              IN Returned(online_devices(w.devs, w.sys, class.components[k], rcfg, cpu))

RECURSIVE OnlineClasses(_, _, _, _)
OnlineClasses(w, i, rcfg, cpu) ==
    IF i > Len(w.classes) THEN w
    ELSE LET Synced(w1) ==
                 IF w1.oops THEN w1
                 ELSE OnlineClasses(OnlineComponents(w1, w1.classes[i], 1, rcfg, cpu, TRUE),
                                    i + 1, rcfg, cpu)
             Sync(s) ==
                 Synced([w EXCEPT !.classes[i] = s.class, !.sys = s.sys, !.oops = s.oops])
         IN Sync(mpam_sync_cpu_cache_component_fw_affinity(w.classes[i], w.sys, cpu))

\* mpam_cpu_online(cpu): [classes, devs, sys, err, new_device_probed, oops,
\* reset, probes]
mpam_cpu_online(cls, ds, sys, rcfg, cpu) ==
    OnlineClasses([classes |-> cls, devs |-> ds, sys |-> sys, err |-> OK,
                   new_device_probed |-> FALSE, oops |-> FALSE, reset |-> {},
                   probes |-> <<>>],
                  1, rcfg, cpu)

\* what mpam_cpu_online() returns
OnlineRet(w) == IF w.err \notin {OK, "1"} THEN w.err ELSE OK

\* an offline pass that leaves the error interrupt of the device enabled
mpam_cpu_offline_keeps_irq(ds, cpu) ==
    [di \in 1 .. Len(ds) |-> [ds[di] EXCEPT !.online_affinity = @ \ {cpu}]]

\* mpam_cpu_offline(cpu): the devices
mpam_cpu_offline(ds, cpu) ==
    [di \in 1 .. Len(ds) |->
        IF cpu \notin ds[di].online_affinity THEN ds[di]
        ELSE LET d1 == [ds[di] EXCEPT !.online_affinity = @ \ {cpu}] IN
             IF d1.online_affinity = {}
             THEN spin_unlock(mpam_write_reg(spin_lock(d1, cpu), "MPAMF_ECR", 0, {}, cpu))
             ELSE d1]

\* ------------------------------------------------------------------ inputs
\* what the firmware tables can describe: caches give no affinity (it is learnt
\* from the cache id), everything else names the CPUs that reach the MSC
FirmwareDevices ==
    [type : {MPAM_CLASS_MEMORY}, level : {3}, comp : {0}, fw : (SUBSET CPUS) \ {{}},
     hw : HwProfiles, flags : {{MPAM_IRQ_MODE_EDGE}}]
    \cup
    [type : {MPAM_CLASS_CACHE}, level : {3}, comp : {0, 1}, fw : {{}},
     hw : {HwCache}, flags : {{MPAM_IRQ_MODE_EDGE}}]

\* the same with level and edge triggered error interrupts
IrqFirmwareDevices ==
    [type : {MPAM_CLASS_MEMORY}, level : {3}, comp : {0}, fw : (SUBSET CPUS) \ {{}},
     hw : {HwBandwidth, HwForeign},
     flags : {{MPAM_IRQ_MODE_LEVEL}, {MPAM_IRQ_MODE_EDGE}}]
    \cup
    [type : {MPAM_CLASS_CACHE}, level : {3}, comp : {0}, fw : {{}},
     hw : {HwCache}, flags : {{MPAM_IRQ_MODE_LEVEL}}]

\* the configurations the policy layer asks for
Configs ==
    {[feat |-> "mpam_feat_mbw_max", partid |-> 0, mpam_cfg |-> {0, 2}],
     [feat |-> "mpam_feat_mbw_min", partid |-> 0, mpam_cfg |-> {0, 2}]}

\* error codes the hardware can hold in MPAMF_ESR when the handler runs
ErrCodes == {0, 1, MPAM_NUM_ERRCODE, MPAM_NUM_ERRCODE + 1}

\* the components that exist: <<class key, component id>>
Components(cls) ==
    UNION {{<<(<<cls[i].level, cls[i].type>>), cls[i].components[k].id>> :
               k \in 1 .. Len(cls[i].components)} : i \in 1 .. Len(cls)}

\* ----------------------------------------------------------------- actions
Init ==
    /\ phase = "discovery"
    /\ devs = <<>>
    /\ classes = <<>>
    /\ sysprops = [max_partid |-> mpam_cpu_max_partids, max_pmg |-> mpam_cpu_max_pmgs,
                   mpam_llc_size |-> 0]
    /\ online = {}
    /\ work_pending = FALSE
    /\ work_running = FALSE
    /\ resctrl_inits = 0
    /\ resctrl_cfg = NoCfg
    /\ call = NoCall
    /\ irq_log = NoIrq
    /\ oops = FALSE
    /\ rt = NoRt
    /\ hp = NoHp
    /\ sq = NoSq
    /\ th = NoTh

\* __mpam_device_create(), followed by mpam_device_set_error_irq() when it
\* returned a device; `fail' is the allocation that fails, "none" for none
CreateDevice(fd, fail) ==
    /\ phase = "discovery"
    /\ Len(devs) < MaxDevices
    /\ LET Created(r) ==
              /\ classes' = r.classes
              /\ devs' = IF r.ret = OK
                         THEN [r.devs EXCEPT ![Len(r.devs)] =
                                  mpam_device_set_error_irq(@, fd.flags)]
                         ELSE r.devs
       IN Created(mpam_device_create(classes, devs, fd.level, fd.type, fd.comp,
                                     fd.fw, fd.hw, fail))
    /\ call' = NoCall
    /\ irq_log' = NoIrq
    /\ hp' = NoHp
    /\ UNCHANGED <<phase, sysprops, online, work_pending, work_running,
                   resctrl_inits, resctrl_cfg, oops, rt, sq, th>>

\* mpam_discovery_failed(): the firmware parser gives up, every class loses its
\* components and devices
DiscoveryFailed ==
    /\ phase = "discovery"
    /\ phase' = "failed"
    /\ classes' = [i \in 1 .. Len(classes) |-> mpam_class_destroy(classes[i])]
    /\ devs' = <<>>
    /\ call' = NoCall
    /\ irq_log' = NoIrq
    /\ hp' = NoHp
    /\ UNCHANGED <<sysprops, online, work_pending, work_running,
                   resctrl_inits, resctrl_cfg, oops, rt, sq, th>>

\* mpam_discovery_complete(): the hotplug callbacks are registered
DiscoveryComplete ==
    /\ phase = "discovery"
    /\ phase' = "running"
    /\ call' = NoCall
    /\ irq_log' = NoIrq
    /\ hp' = NoHp
    /\ UNCHANGED <<devs, classes, sysprops, online, work_pending, work_running,
                   resctrl_inits, resctrl_cfg, oops, rt, sq, th>>

\* the MSC finishes coming up: from now on its MPAMF_AIDR reads as version 1
HardwareSettles(di) ==
    /\ devs[di].hw.aidr # MPAM_ARCHITECTURE_V1
    /\ devs' = [devs EXCEPT ![di].hw.aidr = MPAM_ARCHITECTURE_V1]
    /\ call' = NoCall
    /\ irq_log' = NoIrq
    /\ hp' = NoHp
    /\ UNCHANGED <<phase, classes, sysprops, online, work_pending, work_running,
                   resctrl_inits, resctrl_cfg, oops, rt, sq, th>>

\* a CPU comes up: mpam_cpu_online() runs on it; when it fails the CPU goes
\* back offline without mpam_cpu_offline() being called
CpuOnline(cpu) ==
    /\ phase = "running"
    /\ ~oops
    /\ cpu \notin online
    /\ LET Returned(w) ==
              /\ classes' = w.classes
              /\ devs' = w.devs
              /\ sysprops' = w.sys
              /\ oops' = w.oops
              /\ online' = IF ~w.oops /\ OnlineRet(w) = OK THEN online \cup {cpu}
                           ELSE online
              /\ work_pending' = IF ~w.oops /\ w.new_device_probed /\ w.err \in {OK, "1"}
                                 THEN TRUE ELSE work_pending
              /\ hp' = [kind |-> "online", cpu |-> cpu, ret |-> OnlineRet(w),
                        reset |-> w.reset, probes |-> w.probes]
       IN Returned(mpam_cpu_online(classes, devs, sysprops, resctrl_cfg, cpu))
    /\ call' = NoCall
    /\ irq_log' = NoIrq
    /\ UNCHANGED <<phase, work_running, resctrl_inits, resctrl_cfg, rt, sq, th>>

\* a CPU goes down: mpam_cpu_offline() runs on it
CpuOffline(cpu) ==
    /\ phase = "running"
    /\ ~oops
    /\ cpu \in online
    /\ devs' = mpam_cpu_offline(devs, cpu)
    /\ online' = online \ {cpu}
    /\ hp' = [NoHp EXCEPT !.kind = "offline", !.cpu = cpu]
    /\ call' = NoCall
    /\ irq_log' = NoIrq
    /\ UNCHANGED <<phase, classes, sysprops, work_pending, work_running,
                   resctrl_inits, resctrl_cfg, oops, rt, sq, th>>

\* the workqueue takes mpam_enable_work off the queue
WorkDequeue ==
    /\ ~oops
    /\ work_pending
    /\ ~work_running
    /\ work_pending' = FALSE
    /\ work_running' = TRUE
    /\ call' = NoCall
    /\ irq_log' = NoIrq
    /\ hp' = NoHp
    /\ UNCHANGED <<devs, phase, classes, sysprops, online, resctrl_inits,
                   resctrl_cfg, oops, rt, sq, th>>

\* mpam_enable()
MpamEnable(irq_fail) ==
    /\ ~oops
    /\ work_running
    /\ work_running' = FALSE
    /\ IF AllProbed(devs)
       THEN /\ classes' = mpam_enable_squash_features(classes, devs, 1)
            /\ devs' = mpam_enable_irqs(devs, irq_fail)
            /\ resctrl_inits' = resctrl_inits + 1
       ELSE /\ irq_fail = {}
            /\ UNCHANGED <<devs, classes, resctrl_inits>>
    /\ call' = NoCall
    /\ irq_log' = NoIrq
    /\ hp' = NoHp
    /\ UNCHANGED <<phase, sysprops, online, work_pending, resctrl_cfg, oops, rt, sq, th>>

\* the policy layer calls mpam_component_apply_all() on an online CPU, with
\* cpus_read_lock() held; cfg is NullCfg for a reset
Broadcast(cpu, co, cfg) ==
    /\ phase = "running"
    /\ ~oops
    /\ cpu \in online
    /\ LET Returned(r) ==
              /\ devs' = r.devs
              /\ call' = [active |-> TRUE, class |-> co[1], comp |-> co[2], cpu |-> cpu,
                          cfg |-> cfg, trace |-> r.cu.trace, ret |-> r.cu.first_error,
                          updated_on |-> r.cu.updated_on]
       IN Returned(mpam_component_apply_all(classes, devs, co[1], co[2], cfg,
                                            sysprops, resctrl_cfg, online, cpu))
    /\ irq_log' = NoIrq
    /\ hp' = NoHp
    /\ UNCHANGED <<phase, classes, sysprops, online, work_pending, work_running,
                   resctrl_inits, resctrl_cfg, oops, rt, sq, th>>

\* the error interrupt of a device is delivered to an online CPU
ErrorIrq(di, cpu, errcode) ==
    /\ ~oops
    /\ devs[di].irq_registered
    /\ cpu \in online
    /\ LET Returned(r) ==
              /\ devs' = [devs EXCEPT ![di] = r.dev]
              /\ irq_log' = [errcode |-> errcode, ret |-> r.ret, logged |-> r.logged]
       IN Returned(mpam_handle_error_irq(devs[di], errcode, cpu))
    /\ call' = NoCall
    /\ hp' = NoHp
    /\ UNCHANGED <<phase, classes, sysprops, online, work_pending, work_running,
                   resctrl_inits, resctrl_cfg, oops, rt, sq, th>>

\* ------------------------------------------- one device: reset, apply, reset
\* the configurations a device-apply can be handed: every feature, a value or none
ApplyConfigs ==
    [feat : {"mpam_feat_mbw_max", "mpam_feat_mbw_min", "mpam_feat_mbw_part",
             "mpam_feat_cpor_part", "mpam_feat_ccap_part"},
     partid : 0 .. mpam_cpu_max_partids,
     mpam_cfg : {{}, {0, 2}}]

\* what the policy layer can hold for the component when a reset asks
HeldConfigs ==
    {NoCfg,
     [held |-> TRUE, class |-> <<3, MPAM_CLASS_MEMORY>>, comp |-> 0,
      cfg |-> [feat |-> "mpam_feat_mbw_max", partid |-> 0, mpam_cfg |-> {1}]]}

\* one MSC was created, CPU 0 came online and probed it, mpam_enable() ran
InitApply ==
    \E hw \in {HwBandwidth, HwCache, HwPortion32}, rcfg \in HeldConfigs :
        LET Onlined(w) ==
               /\ phase = "running"
               /\ classes = mpam_enable_squash_features(w.classes, w.devs, 1)
               /\ devs = mpam_enable_irqs(w.devs, {})
               /\ sysprops = w.sys
               /\ online = {0}
               /\ work_pending = FALSE
               /\ work_running = FALSE
               /\ resctrl_inits = 1
               /\ resctrl_cfg = rcfg
               /\ call = NoCall
               /\ irq_log = NoIrq
               /\ oops = FALSE
               /\ rt = [NoRt EXCEPT !.pc = "idle"]
               /\ hp = NoHp
               /\ sq = NoSq
               /\ th = NoTh
            Created(c) ==
                Onlined(mpam_cpu_online(
                            c.classes,
                            [c.devs EXCEPT ![1] =
                                 mpam_device_set_error_irq(@, {MPAM_IRQ_MODE_EDGE})],
                            [max_partid |-> mpam_cpu_max_partids,
                             max_pmg |-> mpam_cpu_max_pmgs, mpam_llc_size |-> 0],
                            NoCfg, 0))
        IN Created(mpam_device_create(<<>>, <<>>, 3, MPAM_CLASS_MEMORY, 0, CPUS, hw,
                                      "none"))

\* mpam_device_apply_config() with no configuration: the device is reset
DeviceReset(cpu) ==
    /\ rt.pc \in {"idle", "applied"}
    /\ cpu \in devs[1].online_affinity
    /\ LET Returned(r) ==
              /\ devs' = [devs EXCEPT ![1] = r.dev]
              /\ rt' = IF rt.pc = "idle"
                       THEN [rt EXCEPT !.pc = "reset", !.snap = r.dev.regs]
                       ELSE [rt EXCEPT !.pc = "done"]
       IN Returned(mpam_device_apply_config(devs[1], NullCfg, sysprops, resctrl_cfg, cpu))
    /\ UNCHANGED <<phase, classes, sysprops, online, work_pending, work_running,
                   resctrl_inits, resctrl_cfg, call, irq_log, oops, hp, sq, th>>

\* mpam_device_apply_config() with a configuration
DeviceApply(cpu, cfg) ==
    /\ rt.pc = "reset"
    /\ cpu \in devs[1].online_affinity
    /\ LET Returned(r) ==
              /\ devs' = [devs EXCEPT ![1] = r.dev]
              /\ rt' = [rt EXCEPT !.pc = "applied", !.cfg = cfg, !.ret = r.ret,
                                  !.before = devs[1].regs]
       IN Returned(mpam_device_apply_config(devs[1], cfg, sysprops, resctrl_cfg, cpu))
    /\ UNCHANGED <<phase, classes, sysprops, online, work_pending, work_running,
                   resctrl_inits, resctrl_cfg, call, irq_log, oops, hp, sq, th>>

\* ------------------------------------------------------ one class: reconcile
\* what the firmware tables describe for the class: a component and an MSC each
SquashInputs == [comp : {0, 1}, hw : SquashProfiles]

\* the orders the same devices can be listed in
SquashOrders ==
    {f \in [1 .. NumSquashDevices -> 1 .. NumSquashDevices] :
        \A a, b \in 1 .. NumSquashDevices : f[a] = f[b] => a = b}

RECURSIVE CreateAll(_, _, _)
CreateAll(fds, i, c) ==
    IF i > Len(fds) THEN c
    ELSE CreateAll(fds, i + 1,
                   mpam_device_create(c.classes, c.devs, 3, MPAM_CLASS_MEMORY,
                                      fds[i].comp, CPUS, fds[i].hw, "none"))

\* the devices are created in this order, then CPU 0 comes online and probes them
Discovered(fds) ==
    LET Created(c) ==
            mpam_cpu_online(c.classes, c.devs,
                            [max_partid |-> mpam_cpu_max_partids,
                             max_pmg |-> mpam_cpu_max_pmgs, mpam_llc_size |-> 0],
                            NoCfg, 0)
    IN Created(CreateAll(fds, 1, [classes |-> <<>>, devs |-> <<>>]))

InitSquash ==
    \E fds \in [1 .. NumSquashDevices -> SquashInputs] :
        LET Onlined(w) ==
               /\ phase = "running"
               /\ classes = w.classes
               /\ devs = w.devs
               /\ sysprops = w.sys
               /\ online = {0}
               /\ work_pending = TRUE
               /\ work_running = FALSE
               /\ resctrl_inits = 0
               /\ resctrl_cfg = NoCfg
               /\ call = NoCall
               /\ irq_log = NoIrq
               /\ oops = FALSE
               /\ rt = NoRt
               /\ hp = [kind |-> "online", cpu |-> 0, ret |-> OnlineRet(w),
                        reset |-> w.reset, probes |-> w.probes]
               /\ sq = [NoSq EXCEPT !.pc = "probed", !.fds = fds]
               /\ th = NoTh
        IN Onlined(Discovered(fds))

\* mpam_enable_squash_features() over the probed devices, once and once more
Reconcile ==
    /\ sq.pc \in {"probed", "once"}
    /\ classes' = mpam_enable_squash_features(classes, devs, 1)
    /\ sq' = IF sq.pc = "probed"
             THEN [sq EXCEPT !.pc = "once", !.once = classes'[1]]
             ELSE [sq EXCEPT !.pc = "twice", !.twice = classes'[1]]
    /\ UNCHANGED <<phase, devs, sysprops, online, work_pending, work_running,
                   resctrl_inits, resctrl_cfg, call, irq_log, oops, rt, hp, th>>

\* the same devices discovered in another order, and reconciled
ReconcileReordered(order) ==
    /\ sq.pc = "twice"
    /\ LET Onlined(w) ==
               sq' = [sq EXCEPT !.pc = "reordered",
                                !.other = mpam_enable_squash_features(w.classes,
                                                                      w.devs, 1)[1]]
       IN Onlined(Discovered([i \in 1 .. NumSquashDevices |-> sq.fds[order[i]]]))
    /\ UNCHANGED <<phase, devs, classes, sysprops, online, work_pending, work_running,
                   resctrl_inits, resctrl_cfg, call, irq_log, oops, rt, hp, th>>

\* ------------------------------------- one device: threads and its spinlock
\* the task of each CPU and the error interrupt handler
Tasks == [c \in CPUS |-> <<"task", c>>]
IrqThread == <<"irq", 0>>
Threads == {Tasks[c] : c \in CPUS} \cup {IrqThread}

\* the configurations the policy layer applies while the CPUs come and go
SeqConfigs == {[feat |-> "mpam_feat_mbw_max", partid |-> 1, mpam_cfg |-> {0, 2}]}

Idle(t) == th.prog[t] = <<>>
Hotplugging(t) == ~Idle(t) /\ th.op[t] \in {"online", "offline"}

\* the device as an operation finds it, its accesses recorded from here on
Traced(dev) == [dev EXCEPT !.traced = TRUE, !.log = <<>>]

\* what an operation leaves of the device apart from its registers and its
\* lock, which change as the thread makes the accesses one by one
Untraced(old, new) ==
    [new EXCEPT !.traced = FALSE, !.log = <<>>, !.regs = old.regs, !.lock = old.lock,
                !.unlocked_access = old.unlocked_access,
                !.foreign_access = old.foreign_access]

\* thread t starts an operation on `cpu' that makes these accesses
Started(t, op, cpu, log) ==
    th' = [th EXCEPT !.prog[t] = log, !.at[t] = 1, !.op[t] = op, !.cpu[t] = cpu,
                     !.last = [thread |-> t, op |-> "begin", reg |-> "", sel |-> 0,
                               landed |-> 0]]

\* one MSC that every CPU reaches was probed by CPU 0 and enabled, then CPU 0
\* went offline again
InitSeq ==
        LET Onlined(w) ==
               /\ phase = "running"
               /\ classes = mpam_enable_squash_features(w.classes, w.devs, 1)
               /\ devs = mpam_cpu_offline(mpam_enable_irqs(w.devs, {}), 0)
               /\ sysprops = w.sys
               /\ online = {}
               /\ work_pending = FALSE
               /\ work_running = FALSE
               /\ resctrl_inits = 1
               /\ resctrl_cfg = NoCfg
               /\ call = NoCall
               /\ irq_log = NoIrq
               /\ oops = FALSE
               /\ rt = NoRt
               /\ hp = NoHp
               /\ sq = NoSq
               /\ th = [on |-> TRUE,
                        prog |-> [t \in Threads |-> <<>>],
                        at |-> [t \in Threads |-> 1],
                        op |-> [t \in Threads |-> "none"],
                        cpu |-> [t \in Threads |-> 0],
                        last |-> [thread |-> IrqThread, op |-> "begin", reg |-> "",
                                  sel |-> 0, landed |-> 0]]
            Created(c) ==
                Onlined(mpam_cpu_online(
                            c.classes,
                            [c.devs EXCEPT ![1] =
                                 mpam_device_set_error_irq(@, {MPAM_IRQ_MODE_EDGE})],
                            [max_partid |-> mpam_cpu_max_partids,
                             max_pmg |-> mpam_cpu_max_pmgs, mpam_llc_size |-> 0],
                            NoCfg, 0))
        IN Created(mpam_device_create(<<>>, <<>>, 3, MPAM_CLASS_MEMORY, 0, CPUS,
                                      HwBandwidth, "none"))

\* mpam_cpu_online() starts on a CPU that comes up; CPU hotplug is serialised
BeginOnline(cpu) ==
    /\ Idle(Tasks[cpu])
    /\ cpu \notin online
    /\ \A c \in CPUS : ~Hotplugging(Tasks[c])
    /\ LET Returned(w) ==
              /\ classes' = w.classes
              /\ sysprops' = w.sys
              /\ devs' = [devs EXCEPT ![1] = Untraced(devs[1], w.devs[1])]
              /\ Started(Tasks[cpu], "online", cpu, w.devs[1].log)
       IN Returned(mpam_cpu_online(classes, [devs EXCEPT ![1] = Traced(@)], sysprops,
                                   resctrl_cfg, cpu))
    /\ online' = online \cup {cpu}
    /\ UNCHANGED <<phase, work_pending, work_running, resctrl_inits, resctrl_cfg,
                   call, irq_log, oops, rt, hp, sq>>

\* mpam_cpu_offline() starts on a CPU that goes down
BeginOffline(cpu) ==
    /\ Idle(Tasks[cpu])
    /\ cpu \in online
    /\ \A c \in CPUS : ~Hotplugging(Tasks[c])
    /\ LET Returned(ds) ==
              /\ devs' = [devs EXCEPT ![1] = Untraced(devs[1], ds[1])]
              /\ Started(Tasks[cpu], "offline", cpu, ds[1].log)
       IN Returned(mpam_cpu_offline([devs EXCEPT ![1] = Traced(@)], cpu))
    /\ online' = online \ {cpu}
    /\ UNCHANGED <<phase, classes, sysprops, work_pending, work_running,
                   resctrl_inits, resctrl_cfg, call, irq_log, oops, rt, hp, sq>>

\* mpam_device_apply_config() starts on a CPU the device is online for; cfg is
\* NullCfg for a reset
BeginApply(cpu, cfg) ==
    /\ Idle(Tasks[cpu])
    /\ cpu \in online
    /\ cpu \in devs[1].online_affinity
    /\ LET Returned(r) ==
              /\ devs' = [devs EXCEPT ![1] = Untraced(devs[1], r.dev)]
              /\ Started(Tasks[cpu], IF cfg = NullCfg THEN "reset" ELSE "apply", cpu,
                         r.dev.log)
       IN Returned(mpam_device_apply_config(Traced(devs[1]), cfg, sysprops,
                                            resctrl_cfg, cpu))
    /\ UNCHANGED <<phase, classes, sysprops, online, work_pending, work_running,
                   resctrl_inits, resctrl_cfg, call, irq_log, oops, rt, hp, sq>>

\* the error interrupt is taken by an online CPU whose interrupts are enabled:
\* spin_lock_irqsave() keeps it off a CPU that holds the device's lock
BeginIrq(cpu, errcode) ==
    /\ Idle(IrqThread)
    /\ devs[1].irq_registered
    /\ cpu \in online
    /\ devs[1].lock # {cpu}
    /\ LET Returned(r) ==
              /\ devs' = [devs EXCEPT ![1] = Untraced(devs[1], r.dev)]
              /\ Started(IrqThread, "irq", cpu, r.dev.log)
       IN Returned(mpam_handle_error_irq(Traced(devs[1]), errcode, cpu))
    /\ UNCHANGED <<phase, classes, sysprops, online, work_pending, work_running,
                   resctrl_inits, resctrl_cfg, call, irq_log, oops, rt, hp, sq>>

\* thread t makes the next access of its operation: spin_lock() waits until
\* the lock is free, a task waits while the interrupt handler runs on its CPU
ThreadStep(t) ==
    /\ ~Idle(t)
    /\ t # IrqThread => Idle(IrqThread) \/ th.cpu[IrqThread] # th.cpu[t]
    /\ LET Made(e, cpu) ==
              /\ e.op = "lock" => devs[1].lock = {}
              /\ devs' = [devs EXCEPT ![1] =
                            CASE e.op = "lock" -> spin_lock(@, cpu)
                              [] e.op = "unlock" -> spin_unlock(@)
                              [] e.op = "read" -> mpam_read_reg(@, cpu)
                              [] e.op = "write" ->
                                     mpam_write_reg(@, e.reg, e.word, e.val, cpu)
                              [] OTHER -> @]
              /\ th' = [th EXCEPT !.at[t] = IF @ = Len(th.prog[t]) THEN 1 ELSE @ + 1,
                                  !.prog[t] = IF th.at[t] = Len(@) THEN <<>> ELSE @,
                                  !.op[t] = IF th.at[t] = Len(th.prog[t])
                                            THEN "none" ELSE @,
                                  !.cpu[t] = IF th.at[t] = Len(th.prog[t]) THEN 0 ELSE @,
                                  !.last = [thread |-> t, op |-> e.op, reg |-> e.reg,
                                            sel |-> e.sel,
                                            landed |-> Event(devs[1], "", "", 0, {}).sel]]
       IN Made(th.prog[t][th.at[t]], th.cpu[t])
    /\ UNCHANGED <<phase, classes, sysprops, online, work_pending, work_running,
                   resctrl_inits, resctrl_cfg, call, irq_log, oops, rt, hp, sq>>

NextSeq ==
    \/ \E cpu \in CPUS : BeginOnline(cpu)
    \/ \E cpu \in CPUS : BeginOffline(cpu)
    \/ \E cpu \in CPUS, cfg \in SeqConfigs \cup {NullCfg} : BeginApply(cpu, cfg)
    \/ \E cpu \in CPUS, errcode \in {0, 1} : BeginIrq(cpu, errcode)
    \/ \E t \in Threads : ThreadStep(t)

NextSquash ==
    \/ Reconcile
    \/ \E order \in SquashOrders : ReconcileReordered(order)

NextApply ==
    \/ \E cpu \in CPUS : DeviceReset(cpu)
    \/ \E cpu \in CPUS, cfg \in ApplyConfigs : DeviceApply(cpu, cfg)

NextIrq ==
    \/ \E fd \in IrqFirmwareDevices : CreateDevice(fd, "none")
    \/ DiscoveryComplete
    \/ \E cpu \in CPUS : CpuOnline(cpu)
    \/ \E cpu \in CPUS : CpuOffline(cpu)
    \/ WorkDequeue
    \/ \E irq_fail \in {{}, 1 .. Len(devs)} : MpamEnable(irq_fail)
    \/ \E di \in 1 .. Len(devs), cpu \in CPUS, errcode \in ErrCodes :
          ErrorIrq(di, cpu, errcode)

\* discovery alone: the firmware parser creates devices, allocations may fail
NextCreate ==
    \/ \E fd \in FirmwareDevices, fail \in AllocFailures \cup {"none"} :
          CreateDevice(fd, fail)
    \/ DiscoveryFailed

\* discovery, hotplug and the deferred enablement, with MSCs that come up late
NextLive ==
    \/ \E fd \in FirmwareDevices : CreateDevice(fd, "none")
    \/ DiscoveryComplete
    \/ \E di \in 1 .. Len(devs) : HardwareSettles(di)
    \/ \E cpu \in CPUS : CpuOnline(cpu)
    \/ \E cpu \in CPUS : CpuOffline(cpu)
    \/ WorkDequeue
    \/ \E irq_fail \in {{}, 1 .. Len(devs)} : MpamEnable(irq_fail)

Next ==
    \/ \E fd \in FirmwareDevices : CreateDevice(fd, "none")
    \/ DiscoveryComplete
    \/ \E cpu \in CPUS : CpuOnline(cpu)
    \/ \E cpu \in CPUS : CpuOffline(cpu)
    \/ WorkDequeue
    \/ \E irq_fail \in {{}, 1 .. Len(devs)} : MpamEnable(irq_fail)
    \/ \E cpu \in CPUS, co \in Components(classes), cfg \in Configs \cup {NullCfg} :
          Broadcast(cpu, co, cfg)

Spec == Init /\ [][Next]_vars
SpecIrq == Init /\ [][NextIrq]_vars
SpecApply == InitApply /\ [][NextApply]_vars
SpecSquash == InitSquash /\ [][NextSquash]_vars
SpecCreate == Init /\ [][NextCreate]_vars
SpecSeq == InitSeq /\ [][NextSeq]_vars
\* schedule_work(): the workqueue runs a queued mpam_enable_work, and the work
\* function it started runs to its end
SpecLive ==
    /\ Init
    /\ [][NextLive]_vars
    /\ WF_vars(WorkDequeue)
    /\ WF_vars(\E irq_fail \in {{}, 1 .. Len(devs)} : MpamEnable(irq_fail))

\* ------------------------------------------------------ broadcaster properties
\* the record of the last mpam_component_apply_all() call
ApplyIdx == {i \in 1 .. Len(call.trace) : call.trace[i].kind = "apply"}
DispatchIdx == {i \in 1 .. Len(call.trace) : call.trace[i].kind = "dispatch"}
FailedIdx == {i \in ApplyIdx : call.trace[i].err # OK}
AppliesOf(d) == {i \in ApplyIdx : call.trace[i].dev = d}
CallDevices ==
    LET list == CompDevices(classes, call.class, call.comp)
    IN {list[i] : i \in 1 .. Len(list)}

\* C1 (as the code has it): when a broadcast call returns success, every device
\* of the component whose online affinity is not empty and holds only online
\* CPUs was applied exactly once during the call, and a device whose online
\* affinity is empty was not applied at all.
C1_OnlineDevicesAppliedOnce ==
    (call.active /\ call.ret = OK) =>
        \A d \in CallDevices :
            /\ (devs[d].online_affinity # {} /\ devs[d].online_affinity \subseteq online)
                   => Cardinality(AppliesOf(d)) = 1
            /\ devs[d].online_affinity = {} => AppliesOf(d) = {}

\* a successful call applied to one device and left a device without online
\* CPU untouched
C1_Witness ==
    /\ call.active
    /\ call.ret = OK
    /\ \E d \in CallDevices : devs[d].online_affinity = {} /\ AppliesOf(d) = {}
    /\ \E d \in CallDevices : devs[d].online_affinity # {} /\ AppliesOf(d) # {}

\* C1 as stated: when a broadcast call returns success, every device of the
\* component was applied exactly once, whatever the online affinities are.
C1_EveryDeviceAppliedOnce ==
    (call.active /\ call.ret = OK) =>
        \A d \in CallDevices : Cardinality(AppliesOf(d)) = 1

\* C2: within one broadcast call no device is applied more than once, and no
\* device is applied by a pass that follows a pass run on a CPU of its online
\* affinity, whether or not an error occurs.
C2_AtMostOneApply ==
    call.active =>
        \A d \in 1 .. Len(devs) :
            /\ Cardinality(AppliesOf(d)) <= 1
            /\ \A i \in AppliesOf(d) : \A j \in ApplyIdx :
                   (j < i /\ call.trace[j].pass # call.trace[i].pass)
                       => call.trace[j].cpu \notin devs[d].online_affinity

\* a device reachable from two CPUs was applied by the first pass and a later
\* pass ran on the other CPU of its affinity
C2_Witness ==
    /\ call.active
    /\ \E i \in ApplyIdx, j \in DispatchIdx :
          /\ i < j
          /\ call.trace[j].err = OK
          /\ call.trace[j].cpu \in devs[call.trace[i].dev].online_affinity
          /\ \E k \in ApplyIdx : k > j

\* C3 (as the code has it): every device-apply of a broadcast call runs on an
\* online CPU of the device's online affinity, hence of its firmware affinity;
\* every remote dispatch is made for a device no pass has applied yet, and its
\* target is a CPU of that device's online affinity when the affinity is not
\* empty; when it is empty the target is no CPU at all and nothing runs.
C3_AppliesRunInAffinity ==
    call.active =>
        /\ \A i \in ApplyIdx :
              /\ call.trace[i].cpu \in devs[call.trace[i].dev].online_affinity
              /\ call.trace[i].cpu \in devs[call.trace[i].dev].fw_affinity
              /\ call.trace[i].cpu \in online
        /\ \A j \in DispatchIdx :
              LET d == call.trace[j].dev IN
              /\ d \in CallDevices
              /\ \A i \in AppliesOf(d) : i > j
              /\ IF devs[d].online_affinity # {}
                 THEN call.trace[j].cpu \in devs[d].online_affinity
                 ELSE /\ call.trace[j].cpu \notin CPUS
                      /\ call.trace[j].err = ENXIO
                      /\ \A i \in ApplyIdx : call.trace[i].pass # call.trace[j].pass

\* a call that dispatched for a device without online CPU, and applied another
C3_Witness ==
    /\ call.active
    /\ ApplyIdx # {}
    /\ \E j \in DispatchIdx : devs[call.trace[j].dev].online_affinity = {}

\* C3 as stated: every device-apply runs on a CPU of the device's online
\* affinity and every remote dispatch targets an existing CPU of the online
\* affinity of the device it is made for, also when that affinity is empty.
C3_DispatchTargetsAffinity ==
    call.active =>
        /\ \A i \in ApplyIdx :
              call.trace[i].cpu \in devs[call.trace[i].dev].online_affinity
        /\ \A j \in DispatchIdx :
              /\ call.trace[j].cpu \in CPUS
              /\ call.trace[j].cpu \in devs[call.trace[j].dev].online_affinity

\* C4 (as the code has it): once a device-apply has failed, no remote dispatch
\* is made any more and the call returns an error; the pass in which the apply
\* failed still applies to the devices that follow in the list, so every later
\* apply belongs to that same pass.
C4_NoDispatchAfterFailure ==
    call.active =>
        \A i \in FailedIdx :
            /\ call.ret # OK
            /\ \A j \in DispatchIdx : j < i
            /\ \A k \in ApplyIdx : k > i => call.trace[k].pass = call.trace[i].pass

\* a device-apply failed and the same pass went on to the next device
C4_Witness ==
    /\ call.active
    /\ \E i \in FailedIdx : \E k \in ApplyIdx :
          k > i /\ call.trace[k].pass = call.trace[i].pass

\* C4 as stated: once a device-apply has failed, no apply is attempted on any
\* other device, neither by the same pass nor by a later remote dispatch.
C4_NothingAfterFailure ==
    call.active =>
        \A i \in FailedIdx : \A k \in ApplyIdx \cup DispatchIdx : k <= i

\* C5: a broadcast call returns the error of the first device-apply that
\* failed, returns success exactly when no device-apply failed, and makes no
\* remote dispatch after an error was recorded.
C5_FirstErrorReturned ==
    call.active =>
        /\ (call.ret = OK) <=> (FailedIdx = {})
        /\ FailedIdx # {} => call.ret = call.trace[MinOf(FailedIdx)].err
        /\ \A i \in FailedIdx : \A j \in DispatchIdx : j < i

\* two device-applies of one call failed with different errors
C5_Witness ==
    /\ call.active
    /\ \E i \in FailedIdx, k \in FailedIdx :
          i < k /\ call.trace[i].err # call.trace[k].err

\* the devices of the call's component are each online on one CPU of their own,
\* the caller's among them
OneCpuEach ==
    /\ \A d \in CallDevices :
          \E c \in online : devs[d].online_affinity = {c}
    /\ \A d1 \in CallDevices : \A d2 \in CallDevices :
          d1 # d2 => devs[d1].online_affinity # devs[d2].online_affinity
    /\ \E d \in CallDevices : devs[d].online_affinity = {call.cpu}

\* C6: a broadcast without error over a component of N devices, each online
\* on exactly one CPU, the N CPUs distinct, called on one of them, performs
\* exactly N device-applies and exactly N - 1 remote dispatches.
C6_ApplyAndDispatchCount ==
    (call.active /\ call.ret = OK /\ OneCpuEach) =>
        /\ Cardinality(ApplyIdx) = Cardinality(CallDevices)
        /\ Cardinality(DispatchIdx) = Cardinality(CallDevices) - 1

\* such a call over a component of at least two devices
C6_Witness ==
    /\ call.active
    /\ call.ret = OK
    /\ OneCpuEach
    /\ Cardinality(CallDevices) >= 2
    /\ DispatchIdx # {}

\* ------------------------------------------------------ device-apply properties
\* C7: a device-apply for a feature the device does not have returns
\* -EOPNOTSUPP, one for a feature it has that carries no value returns -EINVAL,
\* and a device-apply that fails leaves every register of the device, the
\* partid selector included, as it was.
C7_FailedApplyWritesNothing ==
    rt.pc = "applied" =>
        /\ ~mpam_has_feature(rt.cfg.feat, devs[1].features) => rt.ret = EOPNOTSUPP
        /\ (mpam_has_feature(rt.cfg.feat, devs[1].features) /\ rt.cfg.mpam_cfg = {})
               => rt.ret = EINVAL
        /\ rt.ret # OK => devs[1].regs = rt.before

\* an apply without value failed on a device that was reset before, for a
\* partid other than the selected one
C7_Witness ==
    /\ rt.pc = "applied"
    /\ rt.ret = EINVAL
    /\ PART_SEL_KEY \in DOMAIN devs[1].regs
    /\ devs[1].regs[PART_SEL_KEY] # rt.cfg.partid

\* C8 as stated: reset, an apply of a feature the device has to a partid the
\* device implements, reset: every register is as the first reset left it,
\* the policy layer holding no configuration.
C8_ResetApplyReset ==
    (/\ rt.pc = "done"
     /\ ~resctrl_cfg.held
     /\ rt.ret = OK
     /\ rt.cfg.partid <= devs[1].hw.partid_max) => devs[1].regs = rt.snap

\* ----------------------------------------------------- reconciler properties
\* the one class that was reconciled, its devices and the device that seeded it
Reconciled == sq.pc \in {"once", "twice", "reordered"}
SqDevices == 1 .. Len(devs)
SqSeed == devs[classes[1].components[1].devices[1]]
AllHave(feat) == \A d \in SqDevices : mpam_has_feature(feat, devs[d].features)

\* C11 as amended: after the reconciler ran over a class of two or more
\* devices, the cache-portion-bitmap feature is present at class scope if and
\* only if every device has the feature and all devices' widths for the bitmap
\* are equal, and likewise the bandwidth-bitmap feature; widths that differ
\* leave the feature absent.
C11_BitmapPresentIffAllHaveEqualWidth ==
    Reconciled /\ Len(devs) >= 2 =>
        /\ mpam_has_feature("mpam_feat_cpor_part", classes[1].features)
               <=> /\ AllHave("mpam_feat_cpor_part")
                   /\ \A a, b \in SqDevices : devs[a].cpbm_wd = devs[b].cpbm_wd
        /\ mpam_has_feature("mpam_feat_mbw_part", classes[1].features)
               <=> /\ AllHave("mpam_feat_mbw_part")
                   /\ \A a, b \in SqDevices : devs[a].mbw_pbm_bits = devs[b].mbw_pbm_bits

\* portion bitmaps of 13 and 17 bits: portion partitioning is dropped, capacity
\* partitioning stays
C11_Witness ==
    /\ Reconciled
    /\ \E a, b \in SqDevices : devs[a].cpbm_wd = 13 /\ devs[b].cpbm_wd = 17
    /\ AllHave("mpam_feat_cpor_part")
    /\ ~mpam_has_feature("mpam_feat_cpor_part", classes[1].features)
    /\ mpam_has_feature("mpam_feat_ccap_part", classes[1].features)

\* C11 as stated: the bitmap feature is present at class scope if and only if
\* all devices' widths for that bitmap are equal.
C11_BitmapPresentIffEqualWidth ==
    Reconciled /\ Len(devs) >= 2 =>
        /\ mpam_has_feature("mpam_feat_cpor_part", classes[1].features)
               <=> \A a, b \in SqDevices : devs[a].cpbm_wd = devs[b].cpbm_wd
        /\ mpam_has_feature("mpam_feat_mbw_part", classes[1].features)
               <=> \A a, b \in SqDevices : devs[a].mbw_pbm_bits = devs[b].mbw_pbm_bits

\* C12: after the reconciler ran over a class, each narrowed number of the
\* class record (the two monitor counts, the bandwidth-assignment width, the
\* internal and downstream priority widths) is the minimum of that number over
\* every device of every component of the class.
C12_NarrowedToMinimum ==
    Reconciled =>
        /\ classes[1].num_csu_mon = MinOf({devs[d].num_csu_mon : d \in SqDevices})
        /\ classes[1].num_mbwu_mon = MinOf({devs[d].num_mbwu_mon : d \in SqDevices})
        /\ classes[1].bwa_wd = MinOf({devs[d].bwa_wd : d \in SqDevices})
        /\ classes[1].intpri_wd = MinOf({devs[d].intpri_wd : d \in SqDevices})
        /\ classes[1].dspri_wd = MinOf({devs[d].dspri_wd : d \in SqDevices})

\* the device that seeded the class record did not hold the minimum
C12_Witness ==
    /\ Reconciled
    /\ classes[1].num_csu_mon < SqSeed.num_csu_mon
    /\ classes[1].intpri_wd < SqSeed.intpri_wd
    /\ Len(classes[1].components) = 2

\* C13: after the reconciler ran over a class, the internal (downstream)
\* priority feature is present at class scope only if every device has it and
\* all devices agree on whether 0 is the lowest priority; this is so for the
\* order the devices were discovered in and for every other order.
C13_PriorityNeedsOnePolarity ==
    \A pair \in {<<"mpam_feat_intpri_part", "mpam_feat_intpri_part_0_low">>,
                  <<"mpam_feat_dspri_part", "mpam_feat_dspri_part_0_low">>} :
        LET Agreed ==
                /\ AllHave(pair[1])
                /\ \A a, b \in SqDevices :
                       mpam_has_feature(pair[2], devs[a].features)
                           <=> mpam_has_feature(pair[2], devs[b].features)
        IN /\ Reconciled /\ mpam_has_feature(pair[1], classes[1].features) => Agreed
           /\ sq.pc = "reordered" /\ mpam_has_feature(pair[1], sq.other.features)
                  => Agreed

\* every device has internal priority, both polarities are there, and the
\* feature is absent in the order discovered and in another order
C13_Witness ==
    /\ sq.pc = "reordered"
    /\ AllHave("mpam_feat_intpri_part")
    /\ \E a, b \in SqDevices :
           /\ mpam_has_feature("mpam_feat_intpri_part_0_low", devs[a].features)
           /\ ~mpam_has_feature("mpam_feat_intpri_part_0_low", devs[b].features)
    /\ ~mpam_has_feature("mpam_feat_intpri_part", classes[1].features)
    /\ ~mpam_has_feature("mpam_feat_intpri_part", sq.other.features)
    /\ sq.other.components # classes[1].components

NarrowedLeq(class, dev) ==
    /\ class.num_csu_mon <= dev.num_csu_mon
    /\ class.num_mbwu_mon <= dev.num_mbwu_mon
    /\ class.bwa_wd <= dev.bwa_wd
    /\ class.intpri_wd <= dev.intpri_wd
    /\ class.dspri_wd <= dev.dspri_wd

\* C14 as amended: after reconciliation the class feature flags are a subset
\* of every device's flags and every min-narrowed number of the class record
\* is no larger than the device's; a bitmap width of the class record is the
\* first device's, and is no larger than the device's whenever the bitmap's
\* feature is present at class scope.
C14_ClassRecordBelowDevices ==
    Reconciled =>
        \A d \in SqDevices :
            /\ classes[1].features \subseteq devs[d].features
            /\ NarrowedLeq(classes[1], devs[d])
            /\ classes[1].cpbm_wd = SqSeed.cpbm_wd
            /\ classes[1].mbw_pbm_bits = SqSeed.mbw_pbm_bits
            /\ mpam_has_feature("mpam_feat_cpor_part", classes[1].features)
                   => classes[1].cpbm_wd <= devs[d].cpbm_wd
            /\ mpam_has_feature("mpam_feat_mbw_part", classes[1].features)
                   => classes[1].mbw_pbm_bits <= devs[d].mbw_pbm_bits

\* the class record holds a portion bitmap width above a device's, and flags
\* and numbers were narrowed
C14_Witness ==
    /\ Reconciled
    /\ \E d \in SqDevices : classes[1].cpbm_wd > devs[d].cpbm_wd
    /\ classes[1].features # SqSeed.features
    /\ classes[1].num_csu_mon < SqSeed.num_csu_mon

\* C14 as stated: the class flags are a subset of every device's flags and
\* every width or count of the class record, the two bitmap widths included,
\* is no larger than the device's.
C14_ClassRecordLeqDevices ==
    Reconciled =>
        \A d \in SqDevices :
            /\ classes[1].features \subseteq devs[d].features
            /\ NarrowedLeq(classes[1], devs[d])
            /\ classes[1].cpbm_wd <= devs[d].cpbm_wd
            /\ classes[1].mbw_pbm_bits <= devs[d].mbw_pbm_bits

\* C15: the reconciler run a second time over the same devices leaves the
\* class record as the first run left it, and the class flags and the
\* min-narrowed numbers are the same for every order of the class's
\* components and devices.
C15_IdempotentAndOrderIndependent ==
    /\ sq.pc \in {"twice", "reordered"} => sq.twice = sq.once
    /\ sq.pc = "reordered" =>
           /\ sq.other.features = sq.once.features
           /\ sq.other.num_csu_mon = sq.once.num_csu_mon
           /\ sq.other.num_mbwu_mon = sq.once.num_mbwu_mon
           /\ sq.other.bwa_wd = sq.once.bwa_wd
           /\ sq.other.intpri_wd = sq.once.intpri_wd
           /\ sq.other.dspri_wd = sq.once.dspri_wd

\* the other order put another device first (the seeded width shows it), the
\* components changed places, and numbers were narrowed
C15_Witness ==
    /\ sq.pc = "reordered"
    /\ sq.other.cpbm_wd # sq.once.cpbm_wd
    /\ Len(sq.once.components) = 2
    /\ sq.other.components[1].id # sq.once.components[1].id
    /\ sq.once.num_csu_mon < SqSeed.num_csu_mon
    /\ sq.once.features # {}

\* --------------------------------------------------------- prober properties
\* C16: in every reachable state a device whose probed flag is false, whether
\* it was never probed or every probe of it failed, has no feature flag set.
C16_UnprobedHasNoFeature ==
    \A d \in 1 .. Len(devs) : ~devs[d].probed => devs[d].features = {}

\* one device was probed and has features, the probe of another one failed
\* (the CPU that tried is in its online affinity)
C16_Witness ==
    /\ \E d \in 1 .. Len(devs) : devs[d].probed /\ devs[d].features # {}
    /\ \E d \in 1 .. Len(devs) :
           ~devs[d].probed /\ devs[d].online_affinity # {} /\ devs[d].features = {}

\* -------------------------------------------------------- enablement properties
\* every class record is what the reconciler makes of the class's devices
ClassRecordsReconciled == classes = mpam_enable_squash_features(classes, devs, 1)

C18_EnabledAtMostOnce == resctrl_inits <= 1

\* --------------------------------------------------------- hotplug properties
\* the interrupt-enable bit of the device's MPAMF_ECR is set
EcrEnabled(dev) == ECR_KEY \in DOMAIN dev.regs /\ dev.regs[ECR_KEY] # {}
HpReset == {e.dev : e \in hp.reset}

\* C19: a core-offline event removes the core from the online affinity of
\* every device; a device whose online affinity it empties has its
\* error-interrupt enable bit cleared; and the bit of a device with an empty
\* online affinity is set again only by a core-online event of a core of the
\* device's firmware affinity that resets the device.
C19_OfflineClearsInterruptEnable ==
    [][/\ hp'.kind = "offline" =>
             \A d \in 1 .. Len(devs) :
                 /\ hp'.cpu \notin devs'[d].online_affinity
                 /\ devs[d].online_affinity # {} /\ devs'[d].online_affinity = {}
                        => ~EcrEnabled(devs'[d])
       /\ \A d \in 1 .. Len(devs) :
             devs[d].online_affinity = {} /\ ~EcrEnabled(devs[d]) /\ EcrEnabled(devs'[d])
                 => /\ hp'.kind = "online"
                    /\ hp'.cpu \in devs[d].fw_affinity
                    /\ \E e \in hp'.reset : e.dev = d]_vars

\* the last core of a device with a registered error interrupt went offline
\* and the enable bit reads zero
C19_Witness ==
    /\ hp.kind = "offline"
    /\ \E d \in 1 .. Len(devs) :
           /\ devs[d].enable_error_irq
           /\ devs[d].online_affinity = {}
           /\ ECR_KEY \in DOMAIN devs[d].regs
           /\ ~EcrEnabled(devs[d])

\* C20: in a core-online event, a device whose online affinity goes from
\* empty to non-empty is reset, the reset finding the online affinity still
\* empty and the core being recorded after it; a device whose online affinity
\* already held a core is not reset.
C20_ResetOnFirstCoreOnly ==
    [][hp'.kind = "online" =>
          \A d \in 1 .. Len(devs) :
              /\ devs[d].online_affinity = {} /\ devs'[d].online_affinity # {}
                     => /\ \E e \in hp'.reset : e.dev = d /\ e.affinity = {}
                        /\ devs'[d].online_affinity = {hp'.cpu}
              /\ devs[d].online_affinity # {}
                     => ~\E e \in hp'.reset : e.dev = d]_vars

\* one core-online event reset a device it was the first core of and joined
\* another device that already had a core, without a reset
C20_Witness ==
    /\ hp.kind = "online"
    /\ \E d \in HpReset : devs[d].online_affinity = {hp.cpu}
    /\ \E d \in (1 .. Len(devs)) \ HpReset :
           /\ hp.cpu \in devs[d].online_affinity
           /\ devs[d].online_affinity # {hp.cpu}

\* -------------------------------------------------------- probing properties
\* the probes of the last core-online event that failed
FailedProbes(h) == {k \in 1 .. Len(h.probes) : h.probes[k].err # OK}
\* the widths and counts of a device's capability record are all zero
ZeroWidths(dev) ==
    /\ dev.cmax_wd = 0 /\ dev.cpbm_wd = 0 /\ dev.mbw_pbm_bits = 0 /\ dev.bwa_wd = 0
    /\ dev.intpri_wd = 0 /\ dev.dspri_wd = 0
    /\ dev.num_csu_mon = 0 /\ dev.num_mbwu_mon = 0

\* C21 as stated: a core-online event in which the probe of a device failed
\* returns that failure, whatever classes the handler walks afterwards.
C21_ProbeFailureReported ==
    [][hp'.kind = "online" /\ FailedProbes(hp') # {} => hp'.ret # OK]_vars

\* C22: the probe of a device whose architecture register does not read as
\* version 1 fails with -EIO and changes nothing: the device stays unprobed,
\* without features and with zero widths and counts, and when no other probe
\* of the event succeeded the system-wide partid and pmg maxima are unchanged.
C22_ForeignVersionChangesNothing ==
    [][hp'.kind = "online" =>
          /\ \A k \in 1 .. Len(hp'.probes) :
                devs[hp'.probes[k].dev].hw.aidr # MPAM_ARCHITECTURE_V1
                    => /\ hp'.probes[k].err = EIO
                       /\ ~devs'[hp'.probes[k].dev].probed
                       /\ devs'[hp'.probes[k].dev].features = {}
                       /\ ZeroWidths(devs'[hp'.probes[k].dev])
          /\ FailedProbes(hp') = 1 .. Len(hp'.probes)
                => /\ sysprops'.max_partid = sysprops.max_partid
                   /\ sysprops'.max_pmg = sysprops.max_pmg]_vars

\* the only probe of a core-online event failed, on an MSC whose ID registers
\* report features and lower maxima than the summary holds
C22_Witness ==
    /\ hp.kind = "online"
    /\ Len(hp.probes) = 1
    /\ hp.probes[1].err = EIO
    /\ devs[hp.probes[1].dev].hw.has_mbw_part
    /\ devs[hp.probes[1].dev].hw.partid_max < sysprops.max_partid
    /\ devs[hp.probes[1].dev].hw.pmg_max < sysprops.max_pmg

\* C23: the system-wide partid and pmg maxima never increase, and they are at
\* most the maxima of every successfully probed device and at most the values
\* the CPUs supplied.
C23_SummaryIsMinimum ==
    /\ [](/\ sysprops.max_partid <= mpam_cpu_max_partids
          /\ sysprops.max_pmg <= mpam_cpu_max_pmgs
          /\ \A d \in 1 .. Len(devs) :
                devs[d].probed => /\ sysprops.max_partid <= devs[d].hw.partid_max
                                  /\ sysprops.max_pmg <= devs[d].hw.pmg_max)
    /\ [][/\ sysprops'.max_partid <= sysprops.max_partid
          /\ sysprops'.max_pmg <= sysprops.max_pmg]_vars

\* two probed devices report different maxima and the summary is below what
\* the CPUs supplied
C23_Witness ==
    /\ Len(devs) = 2
    /\ devs[1].probed /\ devs[2].probed
    /\ devs[1].hw.partid_max < devs[2].hw.partid_max
    /\ devs[1].hw.pmg_max < devs[2].hw.pmg_max
    /\ sysprops.max_partid = devs[1].hw.partid_max
    /\ sysprops.max_pmg = devs[1].hw.pmg_max
    /\ sysprops.max_partid < mpam_cpu_max_partids

\* ------------------------------------------------------- topology properties
\* C24: there is at most one class per (level, type) and at most one component
\* per id in a class, and every device is in the device list of the component
\* it was created for and in no other.
C24_OneClassPerKeyOneComponentPerId ==
    /\ \A i, j \in 1 .. Len(classes) :
          classes[i].level = classes[j].level /\ classes[i].type = classes[j].type
              => i = j
    /\ \A i \in 1 .. Len(classes) :
          \A a, b \in 1 .. Len(classes[i].components) :
              classes[i].components[a].id = classes[i].components[b].id => a = b
    /\ \A d \in 1 .. Len(devs) :
          \A i \in 1 .. Len(classes) :
              \A a \in 1 .. Len(classes[i].components) :
                  (\E n \in 1 .. Len(classes[i].components[a].devices) :
                       classes[i].components[a].devices[n] = d)
                  <=> /\ devs[d].class = <<classes[i].level, classes[i].type>>
                      /\ devs[d].comp = classes[i].components[a].id

\* two devices were created for the same component of the same class, and a
\* second class exists that a failed creation call left behind
C24_Witness ==
    /\ Len(devs) = 2
    /\ devs[1].class = devs[2].class
    /\ devs[1].comp = devs[2].comp
    /\ Len(classes) = 2

\* C25 as stated: every component in a class's component list owns at least
\* one device, also after a creation call that failed.
C25_EveryComponentOwnsADevice ==
    \A i \in 1 .. Len(classes) :
        \A a \in 1 .. Len(classes[i].components) :
            Len(classes[i].components[a].devices) > 0

\* C26 as stated: a device whose register window could not be mapped is in
\* neither the global device list nor the device list of a component.
C26_UnmappedDeviceDiscarded ==
    /\ \A n \in 1 .. Len(mpam_all_devices(devs)) :
          devs[mpam_all_devices(devs)[n]].mapped_hwpage
    /\ \A i \in 1 .. Len(classes) :
          \A a \in 1 .. Len(classes[i].components) :
              \A n \in 1 .. Len(classes[i].components[a].devices) :
                  devs[classes[i].components[a].devices[n]].mapped_hwpage

\* ------------------------------------------------ error interrupt properties
\* C27: a level-triggered error interrupt is registered only for a device whose
\* firmware affinity holds every possible CPU; for a level-triggered device
\* that some possible CPU does not reach, no handler is registered and the
\* interrupt-enable flag is never set.
C27_LevelIrqNeedsEveryCore ==
    \A d \in 1 .. Len(devs) :
        MPAM_IRQ_MODE_LEVEL \in devs[d].error_irq_flags
            => /\ devs[d].irq_registered
                      => cpu_possible_mask \subseteq devs[d].fw_affinity
               /\ ~(cpu_possible_mask \subseteq devs[d].fw_affinity)
                      => ~devs[d].irq_registered /\ ~devs[d].enable_error_irq

\* the interrupts were requested: a level-triggered device that one CPU does
\* not reach has none, a level-triggered device every CPU reaches has one
C27_Witness ==
    /\ resctrl_inits > 0
    /\ \E d \in 1 .. Len(devs) :
          /\ MPAM_IRQ_MODE_LEVEL \in devs[d].error_irq_flags
          /\ ~(cpu_possible_mask \subseteq devs[d].fw_affinity)
          /\ ~devs[d].irq_registered
    /\ \E d \in 1 .. Len(devs) :
          /\ MPAM_IRQ_MODE_LEVEL \in devs[d].error_irq_flags
          /\ devs[d].irq_registered /\ devs[d].enable_error_irq

\* ------------------------------------------------------ lifecycle properties
\* C28 as stated: once every known device is probed, the deferred enablement
\* work, run fairly, calls the policy layer's initialize.
C28_AllProbedLeadsToInitialize ==
    (/\ phase = "running"
     /\ Len(devs) > 0
     /\ \A d \in 1 .. Len(devs) : devs[d].probed) ~> (resctrl_inits > 0)

\* C29 as stated: a device whose online affinity is not empty is probed; a
\* core-online event neither resets nor records its core for a device that is
\* still unprobed after it; and the probed flag, once set, stays set.
C29_UnprobedProbedOnline ==
    /\ [](\A d \in 1 .. Len(devs) : devs[d].online_affinity # {} => devs[d].probed)
    /\ [][/\ hp'.kind = "online" =>
                \A d \in 1 .. Len(devs) :
                    ~devs'[d].probed
                        => /\ ~\E e \in hp'.reset : e.dev = d
                           /\ devs'[d].online_affinity = devs[d].online_affinity
          /\ \A d \in 1 .. Len(devs) :
                devs[d].probed /\ Len(devs') >= d => devs'[d].probed]_vars

\* C30 as stated: a device whose probe failed in a core-online event stays
\* unprobed and is not probed again by the core-online event that follows.
C30_FailedProbeNotRetried ==
    [][hp.kind = "online" /\ hp'.kind = "online" =>
          \A k \in FailedProbes(hp) :
              /\ ~devs'[hp.probes[k].dev].probed
              /\ \A n \in 1 .. Len(hp'.probes) : hp'.probes[n].dev # hp.probes[k].dev]_vars

\* ------------------------------------------------ register sequence properties
ConfigWrite(e) == e.op = "write" /\ e.reg \in BankedRegs
SelectorWrite(e) == e.op = "write" /\ e.reg = "MPAMCFG_PART_SEL"
\* a lock, an unlock, a barrier that ends a sequence or another selector write
Boundary(e) == e.op \in {"lock", "unlock", "mb"} \/ SelectorWrite(e)

\* every configuration write of the operation follows a selector write of its
\* partid and the write barrier after it, and is followed by a completion
\* barrier, all within one holding of the lock
Ordered(prog) ==
    \A i \in 1 .. Len(prog) :
        ConfigWrite(prog[i]) =>
            /\ \E j \in 1 .. i - 1 :
                  /\ SelectorWrite(prog[j])
                  /\ prog[j + 1].op = "wmb"
                  /\ prog[i].sel = prog[j].val
                  /\ \A k \in j + 1 .. i - 1 : ~Boundary(prog[k])
                  /\ \E l \in 1 .. j - 1 :
                        /\ prog[l].op = "lock"
                        /\ \A k \in l + 1 .. j - 1 : prog[k].op # "unlock"
            /\ \E m \in i + 1 .. Len(prog) :
                  /\ prog[m].op = "mb"
                  /\ \A k \in i + 1 .. m - 1 : ~Boundary(prog[k])

\* C31: in every reset of a partid and every successful apply the device sees,
\* within one holding of its lock, the selector write, the write barrier, the
\* configuration writes of that partid and the completion barrier, in this
\* order; no configuration register is written without a selector write and a
\* barrier before it in the same sequence.
C31_SelectorBarrierWritesBarrier ==
    th.on => \A t \in Threads : Ordered(th.prog[t])

\* one task is in an apply and the other in a reset, and both write
\* configuration registers
C31_Witness ==
    /\ th.on
    /\ \E t, u \in Threads :
          /\ th.op[t] = "apply" /\ th.op[u] = "reset"
          /\ \E i \in 1 .. Len(th.prog[t]) : ConfigWrite(th.prog[t][i])
          /\ \E i \in 1 .. Len(th.prog[u]) : ConfigWrite(th.prog[u][i])

\* the registers of partid p hold an all-ones bitmap of width wd at reg
BitmapDefault(regs, reg, p, wd) ==
    \A word \in 0 .. (wd \div 32) + 1 :
        IF 32 * word < wd
        THEN /\ <<reg, p, word>> \in DOMAIN regs
             /\ regs[<<reg, p, word>>] = {b \in 0 .. 31 : 32 * word + b < wd}
        ELSE <<reg, p, word>> \notin DOMAIN regs

\* C32 as stated: after a reset every partid the reset visited holds the
\* unrestricted default: a bitmap of width w has exactly the bits 0..w-1 set
\* and no word past the bitmap is written, and the bandwidth minimum is zero.
C32_ResetLeavesDefaults ==
    (rt.pc = "reset" /\ ~resctrl_cfg.held) =>
        \A p \in 0 .. sysprops.max_partid - 1 :
            /\ mpam_has_feature("mpam_feat_cpor_part", devs[1].features)
                   => BitmapDefault(devs[1].regs, "MPAMCFG_CPBM", p, devs[1].cpbm_wd)
            /\ mpam_has_feature("mpam_feat_mbw_part", devs[1].features)
                   => BitmapDefault(devs[1].regs, "MPAMCFG_MBW_PBM", p,
                                    devs[1].mbw_pbm_bits)
            /\ mpam_has_feature("mpam_feat_mbw_min", devs[1].features)
                   => devs[1].regs[<<"MPAMCFG_MBW_MIN", p, 0>>] = {}

\* C33 as stated: a device reset selects and resets every partid from 0 up to
\* and including the system-wide maximum partid.
C33_ResetCoversEveryPartid ==
    rt.pc = "reset" =>
        \A p \in 0 .. sysprops.max_partid :
            \E key \in DOMAIN devs[1].regs : key[1] \in BankedRegs /\ key[2] = p

\* C34 as stated: the error interrupt handler returns IRQ_NONE and writes no
\* register for error code 0; for every other code it writes zero to MPAMF_ESR
\* and returns IRQ_HANDLED; a known code is logged by name and every code
\* outside the table, the first past its end included, by number.
C34_HandlerClearsAndNames ==
    [][irq_log'.ret # "none" =>
          /\ irq_log'.errcode = 0
                => /\ irq_log'.ret = "IRQ_NONE"
                   /\ \A d \in 1 .. Len(devs) : devs'[d].regs = devs[d].regs
          /\ irq_log'.errcode # 0
                => /\ irq_log'.ret = "IRQ_HANDLED"
                   /\ \E d \in 1 .. Len(devs) :
                         /\ ESR_KEY \in DOMAIN devs'[d].regs
                         /\ devs'[d].regs[ESR_KEY] = {}
          /\ irq_log'.errcode \in 1 .. MPAM_NUM_ERRCODE - 1 => irq_log'.logged = "name"
          /\ irq_log'.errcode >= MPAM_NUM_ERRCODE => irq_log'.logged = "number"]_vars

\* C35 as stated: the firmware affinity of every component is the union of its
\* devices' firmware affinities and the affinity of every class the union of
\* its components' affinities.
C35_AffinityIsUnion ==
    \A i \in 1 .. Len(classes) :
        /\ classes[i].fw_affinity =
               UNION {classes[i].components[a].fw_affinity :
                          a \in 1 .. Len(classes[i].components)}
        /\ \A a \in 1 .. Len(classes[i].components) :
              classes[i].components[a].fw_affinity =
                  UNION {devs[classes[i].components[a].devices[n]].fw_affinity :
                             n \in 1 .. Len(classes[i].components[a].devices)}

\* C36 as stated: a core-online event of a CPU whose cache id no component of a
\* cache class has leaves that class's affinity, its components' affinities
\* and the largest cache size as they were, and touches no component that
\* does not exist.
C36_MissingComponentIsSkipped ==
    [][hp'.kind = "online" =>
          \A i \in 1 .. Len(classes) :
              (/\ classes[i].type = MPAM_CLASS_CACHE
               /\ \A a \in 1 .. Len(classes[i].components) :
                     classes[i].components[a].id #
                         get_cpu_cacheinfo_id(hp'.cpu, classes[i].level))
                  => /\ ~oops'
                     /\ classes'[i].fw_affinity = classes[i].fw_affinity
                     /\ \A a \in 1 .. Len(classes[i].components) :
                           classes'[i].components[a].fw_affinity =
                               classes[i].components[a].fw_affinity
                     /\ sysprops'.mpam_llc_size = sysprops.mpam_llc_size]_vars

\* C37 as stated: a core-online event that returns a failure leaves the online
\* affinity of every device as it was.
C37_FailedOnlineRecordsNoCore ==
    [][hp'.kind = "online" /\ hp'.ret # OK =>
          \A d \in 1 .. Len(devs) :
              devs'[d].online_affinity = devs[d].online_affinity]_vars

\* thread t has written the partid selector and not yet reached the completion
\* barrier of that sequence
InSequence(t) ==
    \E j \in 1 .. th.at[t] - 1 :
        /\ SelectorWrite(th.prog[t][j])
        /\ \A k \in j + 1 .. th.at[t] - 1 : th.prog[t][k].op # "mb"

\* C38: while a thread is between its selector write and its completion
\* barrier on the device, every register read and write of the device is that
\* thread's, and every configuration write lands in the partid its own
\* operation selected.
C38_SequencesDoNotInterleave ==
    [][th' # th /\ th'.last.op \in {"read", "write"} =>
          /\ \A t \in Threads : InSequence(t) => th'.last.thread = t
          /\ th'.last.reg \in BankedRegs => th'.last.landed = th'.last.sel]_vars

\* a task is in the middle of a sequence while the other task and the
\* interrupt handler wait for the device's lock
C38_Witness ==
    /\ th.on
    /\ \E t \in Threads :
          /\ InSequence(t)
          /\ \A u \in Threads \ {t} :
                /\ th.prog[u] # <<>>
                /\ th.prog[u][th.at[u]].op = "lock"

\* ------------------------------------------------------- affinity properties
\* C9 as stated: every register access is made by a CPU of the device's
\* firmware affinity that holds the device's lock, the accesses of the error
\* interrupt handler included.
C9_RegisterAccessAffineAndLocked ==
    \A d \in 1 .. Len(devs) : ~devs[d].foreign_access /\ ~devs[d].unlocked_access

\* C10: after any sequence of device creations and CPU online and offline
\* events every device's online affinity is a subset of its firmware affinity.
C10_OnlineWithinFirmwareAffinity ==
    \A d \in 1 .. Len(devs) : devs[d].online_affinity \subseteq devs[d].fw_affinity

\* a CPU went offline again: a device is online on a part of its affinity,
\* another device of the same component on none
C10_Witness ==
    /\ online # CPUS
    /\ \E d \in 1 .. Len(devs) :
          /\ devs[d].online_affinity # {}
          /\ devs[d].online_affinity # devs[d].fw_affinity
    /\ \E d \in 1 .. Len(devs) :
          devs[d].fw_affinity # {} /\ devs[d].online_affinity = {}

====
